---- MODULE Spec2Model ----
(***************************************************************************)
(* A model of the BookConverter scripts:                                   *)
(*   html_to_json_converter.py  (markup extraction, strict mode, Roman     *)
(*                               numerals)                                 *)
(*   json_to_docx_converter.py  (section planning, TOC, bookmarks)         *)
(*   html_to_docx_converter.py  (direct HTML rendering, bookmark check)    *)
(* Each converter is one specification over its own variables; the         *)
(* variables of the other converters stay at their idle values.            *)
(***************************************************************************)
EXTENDS Integers, Sequences, FiniteSets, TLC

VARIABLES
    \* ---- json_to_docx_converter.py
    FORCE_BLANK_VERSO_PAGES, \* module constant, either value
    j2d_data,                \* the loaded JSON: [dedication, chapters]
    j2d_pc,                  \* position in process_document / main
    j2d_doc,                 \* the docx Document: a sequence of sections
    j2d_i,                   \* process_chapters: enumerate index (0-based)
    j2d_bookmark_id_counter, \* module global bookmark_id_counter
    j2d_saved,               \* doc.save has been performed
    \* ---- html_to_docx_converter.py
    h2d_soup,                \* the parsed HTML, elements in document order
    h2d_pc,
    h2d_bookmarks,           \* collect_bookmarks: the keys of the dict
    h2d_elements,            \* analyze_content: the filtered element list
    h2d_toc_references,
    h2d_idx,                 \* position of "for element in elements"
    h2d_doc,                 \* the docx Document: a sequence of body items
    h2d_pending_bookmarks,
    h2d_toc_encountered,
    h2d_bookmark_id_counter,
    h2d_analysis_failed,     \* analyze_content raised and the fallback ran
    h2d_errors,              \* the errors raised, in order, each the set of ids listed
    h2d_saved,
    h2d_exit_code,
    \* ---- html_to_json_converter.py, convert_html_to_json
    h2j_source,              \* the sibling elements of the document
    h2j_pc,
    h2j_chapter_headings,    \* positions of the filtered <h2> elements
    h2j_i,                   \* enumerate index (0-based)
    h2j_current_element,     \* position of current_element, 0 for None
    h2j_strict_mode,
    h2j_book,                \* book_data["book"]
    h2j_chapter,             \* the chapter object of iteration i
    h2j_paragraphs,          \* the list being collected for chapter i
    h2j_chapters,            \* book_data["chapters"]
    h2j_error,               \* the kind of ValueError raised, "" for none
    h2j_written,             \* the JSON file has been written
    h2j_exit_code,
    \* ---- Roman numerals: roman_numeral and roman_to_int
    rn_pc,
    rn_num,                  \* the integer fed to roman_numeral
    rn_roman,                \* roman_numeral(num)
    rn_back,                 \* roman_to_int(roman), or RomanError
    rn_again,                \* roman_numeral(back)
    \* ---- html_to_json_converter.py, normalize_html_whitespace
    ws_pc,
    ws_text,                 \* the argument text
    ws_once,                 \* normalize_html_whitespace(text)
    ws_twice,                \* normalize_html_whitespace of that result
    \* ---- add_bookmark called freely in one process
    bm_docs,                 \* the documents made so far, in order
    \* ---- json_to_docx_converter.py, to_title_case
    tc_pc,
    tc_text,                 \* the argument, as the list of its words
    tc_once,                 \* to_title_case(text)
    tc_twice                 \* to_title_case of that result

j2d_vars == <<FORCE_BLANK_VERSO_PAGES, j2d_data, j2d_pc, j2d_doc, j2d_i,
              j2d_bookmark_id_counter, j2d_saved>>
h2d_vars == <<h2d_soup, h2d_pc, h2d_bookmarks, h2d_elements, h2d_toc_references,
              h2d_idx, h2d_doc, h2d_pending_bookmarks, h2d_toc_encountered,
              h2d_bookmark_id_counter, h2d_analysis_failed, h2d_errors, h2d_saved,
              h2d_exit_code>>
h2j_vars == <<h2j_source, h2j_pc, h2j_chapter_headings, h2j_i, h2j_current_element,
              h2j_strict_mode, h2j_book, h2j_chapter, h2j_paragraphs, h2j_chapters, h2j_error,
              h2j_written, h2j_exit_code>>
rn_vars == <<rn_pc, rn_num, rn_roman, rn_back, rn_again>>
ws_vars == <<ws_pc, ws_text, ws_once, ws_twice>>
bm_vars == <<bm_docs>>
tc_vars == <<tc_pc, tc_text, tc_once, tc_twice>>
vars == <<j2d_vars, h2d_vars, h2j_vars, rn_vars, ws_vars, bm_vars, tc_vars>>

\* Sequences over S of length at most n.
SeqUpTo(S, n) == UNION {[1..k -> S] : k \in 0..n}

\* The set of the elements of a sequence.
Range(s) == {s[k] : k \in DOMAIN s}

(***************************************************************************)
(* Roman numerals                                                          *)
(***************************************************************************)

\* The largest integer converted (the range of standard Roman numerals).
MaxNum == 3999

\* What a call of roman_to_int ends with: a returned integer or a ValueError.
Returned(v) == [raised |-> FALSE, value |-> v]

RomanError == [raised |-> TRUE, value |-> 0]

\* json_to_docx_converter.py, roman_numeral: the tables val and syms.
val == <<1000, 900, 500, 400, 100, 90, 50, 40, 10, 9, 5, 4, 1>>

syms == << <<"M">>, <<"C", "M">>, <<"D">>, <<"C", "D">>,
           <<"C">>, <<"X", "C">>, <<"L">>, <<"X", "L">>,
           <<"X">>, <<"I", "X">>, <<"V">>, <<"I", "V">> ,
           <<"I">> >>

\* The while loop of roman_numeral from table position i: syms[i] is appended
\* num // val[i] times, then i moves on.
RECURSIVE roman_numeral_from(_, _)
roman_numeral_from(num, i) ==
    IF num <= 0 THEN <<>>
    ELSE IF num >= val[i] THEN syms[i] \o roman_numeral_from(num - val[i], i)
    ELSE roman_numeral_from(num, i + 1)

roman_numeral(num) == roman_numeral_from(num, 1)

\* U+0131, LATIN SMALL LETTER DOTLESS I: its upper case is "I".
DotlessI == "DOTLESS I"

\* U+0130, LATIN CAPITAL LETTER I WITH DOT ABOVE: it is its own upper case.
DottedI == "DOTTED I"

\* str.upper() on the characters the model uses.
upper(c) ==
    CASE c = "i" -> "I" [] c = "v" -> "V" [] c = "x" -> "X" [] c = "l" -> "L"
      [] c = "c" -> "C" [] c = "d" -> "D" [] c = "m" -> "M"
      [] c = DotlessI -> "I" [] OTHER -> c

RomanChars == {"I", "V", "X", "L", "C", "D", "M"}

\* The characters the class [IVXLCDM] matches under re.IGNORECASE: both
\* cases of the seven letters and the two characters that case-fold to "i".
IgnoreCaseRomanChars ==
    RomanChars \cup {"i", "v", "x", "l", "c", "d", "m", DotlessI, DottedI}

\* html_to_json_converter.py, roman_to_int: roman_dict.
roman_dict(c) ==
    CASE c = "I" -> 1 [] c = "V" -> 5 [] c = "X" -> 10 [] c = "L" -> 50
      [] c = "C" -> 100 [] c = "D" -> 500 [] c = "M" -> 1000

\* re.match(r'^[IVXLCDM]+$', roman, re.IGNORECASE): "$" matches at the end
\* of the string and also just before a newline that ends it.
roman_format_ok(roman) ==
    LET n == Len(roman)
        body == IF n >= 1 /\ roman[n] = "\n" THEN SubSeq(roman, 1, n - 1) ELSE roman
    IN  /\ Len(body) >= 1
        /\ \A k \in DOMAIN body : body[k] \in IgnoreCaseRomanChars

\* Mutant of roman_accumulate: a digit equal to the one on its right is
\* subtracted (">" for ">=").
RECURSIVE roman_accumulate_strict(_, _, _, _)
roman_accumulate_strict(roman, k, result, prev_value) ==
    IF k = 0 THEN Returned(result)
    ELSE IF upper(roman[k]) \notin RomanChars THEN RomanError
    ELSE LET current_value == roman_dict(upper(roman[k]))
         IN  IF current_value > prev_value
             THEN roman_accumulate_strict(roman, k - 1, result + current_value, current_value)
             ELSE roman_accumulate_strict(roman, k - 1, result - current_value, current_value)

\* The loop "for char in reversed(roman)": position k runs from Len(roman)
\* down to 1, carrying result and prev_value.
RECURSIVE roman_accumulate(_, _, _, _)
roman_accumulate(roman, k, result, prev_value) ==
    IF k = 0 THEN Returned(result)
    ELSE IF upper(roman[k]) \notin RomanChars THEN RomanError
    ELSE LET current_value == roman_dict(upper(roman[k]))
         IN  IF current_value >= prev_value
             THEN roman_accumulate(roman, k - 1, result + current_value, current_value)
             ELSE roman_accumulate(roman, k - 1, result - current_value, current_value)

roman_to_int(roman) ==
    IF ~roman_format_ok(roman) THEN RomanError
    ELSE roman_accumulate(roman, Len(roman), 0, 0)

NoRoman == <<"?">>

rn_Init ==
    /\ rn_pc = "start"
    /\ rn_num \in 1..MaxNum
    /\ rn_roman = NoRoman
    /\ rn_back = Returned(0)
    /\ rn_again = NoRoman

rn_Idle ==
    /\ rn_pc = "idle"
    /\ rn_num = 0
    /\ rn_roman = NoRoman
    /\ rn_back = Returned(0)
    /\ rn_again = NoRoman

\* toRoman: roman_numeral(num)
rn_ToRoman ==
    /\ UNCHANGED <<j2d_vars, h2d_vars, h2j_vars, ws_vars, bm_vars, tc_vars>>
    /\ rn_pc = "start"
    /\ rn_roman' = roman_numeral(rn_num)
    /\ rn_pc' = "roman"
    /\ UNCHANGED <<rn_num, rn_back, rn_again>>

\* fromRoman: roman_to_int on the numeral just produced
rn_FromRoman ==
    /\ UNCHANGED <<j2d_vars, h2d_vars, h2j_vars, ws_vars, bm_vars, tc_vars>>
    /\ rn_pc = "roman"
    /\ rn_back' = roman_to_int(rn_roman)
    /\ rn_pc' = "back"
    /\ UNCHANGED <<rn_num, rn_roman, rn_again>>

\* toRoman again, on the integer read back (nothing to convert after an error)
rn_ToRomanAgain ==
    /\ UNCHANGED <<j2d_vars, h2d_vars, h2j_vars, ws_vars, bm_vars, tc_vars>>
    /\ rn_pc = "back"
    /\ rn_again' = IF rn_back.raised THEN NoRoman ELSE roman_numeral(rn_back.value)
    /\ rn_pc' = "again"
    /\ UNCHANGED <<rn_num, rn_roman, rn_back>>

rn_Next ==
    \/ rn_ToRoman
    \/ rn_FromRoman
    \/ rn_ToRomanAgain

\* The longest token handed to roman_to_int on its own.
MaxToken == 4

TokenChars == RomanChars \cup {"i", DotlessI, DottedI, "A", "\n"}

\* roman_to_int called with an arbitrary token
rn_TokenInit ==
    /\ rn_pc = "token"
    /\ rn_num = 0
    /\ rn_roman \in SeqUpTo(TokenChars, MaxToken)
    /\ rn_back = Returned(0)
    /\ rn_again = NoRoman

rn_ParseToken ==
    /\ UNCHANGED <<j2d_vars, h2d_vars, h2j_vars, ws_vars, bm_vars, tc_vars>>
    /\ rn_pc = "token"
    /\ rn_back' = roman_to_int(rn_roman)
    /\ rn_pc' = "parsed"
    /\ UNCHANGED <<rn_num, rn_roman, rn_again>>

rn_TokenNext ==
    \/ rn_ParseToken

(***************************************************************************)
(* html_to_json_converter.py, normalize_html_whitespace                    *)
(***************************************************************************)

\* The longest text normalised.
MaxText == 4

\* U+00A0, a Unicode whitespace character outside ASCII.
NBSP == "NBSP"

\* The characters \s matches and str.strip() removes (str.isspace), among
\* the characters of the model.
WhitespaceChars == {" ", "\n", "\t", NBSP}

TextChars == WhitespaceChars \cup {"a", "b"}

\* The text after the whitespace run it starts with.
RECURSIVE skip_whitespace(_)
skip_whitespace(text) ==
    IF text # <<>> /\ Head(text) \in WhitespaceChars
    THEN skip_whitespace(Tail(text))
    ELSE text

\* re.sub(r'\s+', ' ', text): every maximal run of whitespace becomes one
\* space.
RECURSIVE sub_whitespace(_)
sub_whitespace(text) ==
    IF text = <<>> THEN <<>>
    ELSE IF Head(text) \in WhitespaceChars
         THEN <<" ">> \o sub_whitespace(skip_whitespace(text))
         ELSE <<Head(text)>> \o sub_whitespace(Tail(text))

\* str.lstrip()
lstrip(text) == skip_whitespace(text)

\* str.rstrip()
RECURSIVE rstrip(_)
rstrip(text) ==
    IF text # <<>> /\ text[Len(text)] \in WhitespaceChars
    THEN rstrip(SubSeq(text, 1, Len(text) - 1))
    ELSE text

\* Mutant of strip: only the leading whitespace is removed.
strip_leading_only(text) == lstrip(text)

\* str.strip()
strip(text) == rstrip(lstrip(text))

normalize_html_whitespace(text) ==
    IF text = <<>> THEN text
    ELSE strip(sub_whitespace(text))

NoText == <<"?">>

ws_Init ==
    /\ ws_pc = "start"
    /\ ws_text \in SeqUpTo(TextChars, MaxText)
    /\ ws_once = NoText
    /\ ws_twice = NoText

ws_Idle ==
    /\ ws_pc = "idle"
    /\ ws_text = <<>>
    /\ ws_once = NoText
    /\ ws_twice = NoText

\* normalize_html_whitespace(text)
ws_Normalize ==
    /\ UNCHANGED <<j2d_vars, h2d_vars, h2j_vars, rn_vars, bm_vars, tc_vars>>
    /\ ws_pc = "start"
    /\ ws_once' = normalize_html_whitespace(ws_text)
    /\ ws_pc' = "once"
    /\ UNCHANGED <<ws_text, ws_twice>>

\* normalize_html_whitespace applied to its own result
ws_NormalizeAgain ==
    /\ UNCHANGED <<j2d_vars, h2d_vars, h2j_vars, rn_vars, bm_vars, tc_vars>>
    /\ ws_pc = "once"
    /\ ws_twice' = normalize_html_whitespace(ws_once)
    /\ ws_pc' = "twice"
    /\ UNCHANGED <<ws_text, ws_once>>

ws_Next ==
    \/ ws_Normalize
    \/ ws_NormalizeAgain

(***************************************************************************)
(* json_to_docx_converter.py                                               *)
(***************************************************************************)

\* The longest chapter list of a book.
MaxChapters == 2

\* A title is the list of its words (what text.split() gives).
Titles == { <<"THE", "home">>, <<"a">> }

\* The word made of U+0149 (LATIN SMALL LETTER N PRECEDED BY APOSTROPHE) and
\* "b"; its capitalize(), made of U+02BC, "N" and "b" (the title case of
\* U+0149 is two characters); and the lower() of that, made of U+02BC, "n"
\* and "b".
WordNJoined == "<U+0149>b"

WordNTitled == "<U+02BC>Nb"

WordNLowered == "<U+02BC>nb"

\* str.lower() and str.capitalize() on the words the model uses.
lower(w) ==
    CASE w \in {"the", "The", "THE"} -> "the"
      [] w \in {"home", "Home", "HOME"} -> "home"
      [] w \in {"a", "A"} -> "a"
      [] w \in {"of", "Of", "OF"} -> "of"
      [] w = WordNTitled -> WordNLowered
      [] OTHER -> w

capitalize(w) ==
    CASE lower(w) = "the" -> "The"
      [] lower(w) = "home" -> "Home"
      [] lower(w) = "a" -> "A"
      [] lower(w) = "of" -> "Of"
      [] w = WordNJoined -> WordNTitled
      [] w \in {WordNTitled, WordNLowered} -> WordNLowered
      [] OTHER -> w

lowercase_words ==
    {"a", "an", "the", "and", "but", "or", "nor", "yet", "so",
     "as", "at", "by", "for", "in", "of", "on", "to", "with"}

\* to_title_case on the list of words of the text; the result is the list of
\* words that ' '.join puts together.
to_title_case(text) ==
    LET words == [k \in DOMAIN text |-> lower(text[k])]
        n == Len(words)
    IN  [k \in 1..n |->
            IF k = 1 \/ k = n THEN capitalize(words[k])
            ELSE IF lower(words[k]) \notin lowercase_words THEN capitalize(words[k])
            ELSE words[k]]

\* The longest text given to to_title_case on its own, in words.
MaxWords == 3

TitleWords == {"THE", "home", "of", "a", WordNJoined}

NoTitle == <<"?">>

tc_Init ==
    /\ tc_pc = "start"
    /\ tc_text \in SeqUpTo(TitleWords, MaxWords)
    /\ tc_once = NoTitle
    /\ tc_twice = NoTitle

tc_Idle ==
    /\ tc_pc = "idle"
    /\ tc_text = <<>>
    /\ tc_once = NoTitle
    /\ tc_twice = NoTitle

\* to_title_case(text)
tc_TitleCase ==
    /\ UNCHANGED <<j2d_vars, h2d_vars, h2j_vars, rn_vars, ws_vars, bm_vars>>
    /\ tc_pc = "start"
    /\ tc_once' = to_title_case(tc_text)
    /\ tc_pc' = "once"
    /\ UNCHANGED <<tc_text, tc_twice>>

\* to_title_case applied to its own result
tc_TitleCaseAgain ==
    /\ UNCHANGED <<j2d_vars, h2d_vars, h2j_vars, rn_vars, ws_vars, bm_vars>>
    /\ tc_pc = "once"
    /\ tc_twice' = to_title_case(tc_once)
    /\ tc_pc' = "twice"
    /\ UNCHANGED <<tc_text, tc_once>>

tc_Next ==
    \/ tc_TitleCase
    \/ tc_TitleCaseAgain

\* The items of chapter['paragraphs']: a string, a {"type": "quote"} object,
\* an object of another type, anything else.
ParagraphItems == {"str", "quote", "other_type", "bad_format"}

ParagraphLists == { <<>>, <<"str", "quote">>, <<"bad_format", "other_type">> }

\* chapter['number']: out of order and not contiguous in some books.
ChapterNumbers == {1, 4}

Chapters == [number : ChapterNumbers, title : Titles, paragraphs : ParagraphLists]

\* data['dedication']: the key absent, an empty object, an object whose only
\* key is one the page does not use, or dedication data.  "" and <<>> stand
\* for a key that is absent or holds an empty value; other tells that
\* another key is there.
NoDedication == [present |-> FALSE, to |-> "", from |-> "", credits |-> <<>>, other |-> FALSE]

Dedications ==
    { NoDedication,
      [present |-> TRUE, to |-> "", from |-> "", credits |-> <<>>, other |-> FALSE],
      [present |-> TRUE, to |-> "", from |-> "", credits |-> <<>>, other |-> TRUE],
      [present |-> TRUE, to |-> "to", from |-> "from", credits |-> <<"credit">>,
       other |-> FALSE] }

\* "if not dedication_data": an empty dict is falsy.
DedicationIsEmpty(d) == d.to = "" /\ d.from = "" /\ d.credits = <<>> /\ ~d.other

Digit(n) ==
    CASE n = 0 -> "0" [] n = 1 -> "1" [] n = 2 -> "2" [] n = 3 -> "3" [] n = 4 -> "4"
      [] n = 5 -> "5" [] n = 6 -> "6" [] n = 7 -> "7" [] n = 8 -> "8" [] n = 9 -> "9"

\* str(n) for n >= 0, as a list of characters.
RECURSIVE decimal(_)
decimal(n) == IF n < 10 THEN <<Digit(n)>> ELSE decimal(n \div 10) \o <<Digit(n % 10)>>

\* f"chapter_{chapter['number']}"
chapter_bookmark_id(number) == <<"c", "h", "a", "p", "t", "e", "r", "_">> \o decimal(number)

AlnumChars ==
    {"a", "b", "c", "e", "h", "p", "r", "t", "x", "y",
     "0", "1", "2", "3", "4", "5", "6", "7", "8", "9"}

\* ''.join(c if c.isalnum() else '_' for c in bookmark_id)
j2d_safe_bookmark_id(bookmark_id) ==
    [k \in DOMAIN bookmark_id |->
        IF bookmark_id[k] \in AlnumChars THEN bookmark_id[k] ELSE "_"]

\* A paragraph of the document body.  "of" is the position in the chapter list
\* of the chapter whose body the paragraph belongs to, 0 for front matter.
Para(style, runs, of) ==
    [style |-> style, runs |-> runs, bookmarks |-> <<>>, page_refs |-> <<>>, of |-> of]

\* A paragraph of a header: its alignment and its runs (PAGE is the page field).
HeaderPara(alignment, runs) == [alignment |-> alignment, runs |-> runs]

\* Document(): the initial section of the default template.
InitialSection ==
    [start_type |-> "NEW_PAGE", vAlign |-> <<>>, pgNumType |-> FALSE,
     first_page_header |-> <<>>, header |-> <<>>, even_page_header |-> <<>>,
     body |-> <<>>]

\* doc.add_section(start_type): the new last section starts as a copy of the
\* section properties of the previous one, without its header references.
add_section(doc, start_type) ==
    LET last == doc[Len(doc)]
    IN  Append(doc, [start_type |-> start_type, vAlign |-> last.vAlign,
                     pgNumType |-> last.pgNumType,
                     first_page_header |-> <<>>, header |-> <<>>,
                     even_page_header |-> <<>>, body |-> <<>>])

\* Mutant of setup_section_headers: the even-page header is laid out like
\* the odd-page one, title first.
setup_section_headers_even_as_odd(section, chapter_title, center_vertical, hide_headers, reset_numbering) ==
    LET s1 == [section EXCEPT
                 !.vAlign = Append(@, IF center_vertical THEN "center" ELSE "top"),
                 !.pgNumType = reset_numbering,
                 !.first_page_header = <<>>,
                 !.header = <<>>,
                 !.even_page_header = <<>>]
    IN  IF hide_headers THEN s1
        ELSE [s1 EXCEPT
                 !.first_page_header =
                     << HeaderPara(IF section.start_type = "EVEN_PAGE" THEN "LEFT" ELSE "RIGHT",
                                   << <<"PAGE">> >>) >>,
                 !.header =
                     << HeaderPara("RIGHT", <<chapter_title, <<"\t">>, <<"PAGE">> >>) >>,
                 !.even_page_header =
                     << HeaderPara("LEFT", <<chapter_title, <<"\t">>, <<"PAGE">> >>) >>]

\* Mutant of setup_section_headers: a pgNumType copied from the section
\* before is left in place when the numbering is not reset.
setup_section_headers_keep_numbering(section, chapter_title, center_vertical, hide_headers, reset_numbering) ==
    LET s1 == [section EXCEPT
                 !.vAlign = Append(@, IF center_vertical THEN "center" ELSE "top"),
                 !.pgNumType = @ \/ reset_numbering,
                 !.first_page_header = <<>>,
                 !.header = <<>>,
                 !.even_page_header = <<>>]
    IN  IF hide_headers THEN s1
        ELSE [s1 EXCEPT
                 !.first_page_header =
                     << HeaderPara(IF section.start_type = "EVEN_PAGE" THEN "LEFT" ELSE "RIGHT",
                                   << <<"PAGE">> >>) >>,
                 !.header =
                     << HeaderPara("RIGHT", <<chapter_title, <<"\t">>, <<"PAGE">> >>) >>,
                 !.even_page_header =
                     << HeaderPara("LEFT", << <<"PAGE">>, <<"\t">>, chapter_title>>) >>]

\* setup_section_headers(section, chapter_title, center_vertical, hide_headers,
\* reset_numbering): the section as the call leaves it.
setup_section_headers(section, chapter_title, center_vertical, hide_headers, reset_numbering) ==
    LET s1 == [section EXCEPT
                 !.vAlign = Append(@, IF center_vertical THEN "center" ELSE "top"),
                 !.pgNumType = reset_numbering,
                 !.first_page_header = <<>>,
                 !.header = <<>>,
                 !.even_page_header = <<>>]
    IN  IF hide_headers THEN s1
        ELSE [s1 EXCEPT
                 !.first_page_header =
                     << HeaderPara(IF section.start_type = "EVEN_PAGE" THEN "LEFT" ELSE "RIGHT",
                                   << <<"PAGE">> >>) >>,
                 !.header =
                     << HeaderPara("RIGHT", <<chapter_title, <<"\t">>, <<"PAGE">> >>) >>,
                 !.even_page_header =
                     << HeaderPara("LEFT", << <<"PAGE">>, <<"\t">>, chapter_title>>) >>]

\* doc.add_paragraph: the paragraph goes to the end of the last section.
add_paragraph(doc, para) ==
    [doc EXCEPT ![Len(doc)].body = Append(@, para)]

\* The doc with the headers of its last section set up.
setup_last(doc, chapter_title, center_vertical, hide_headers, reset_numbering) ==
    [doc EXCEPT ![Len(doc)] =
        setup_section_headers(@, chapter_title, center_vertical, hide_headers, reset_numbering)]

\* Mutant of j2d_add_bookmark: the end anchor takes the id after the
\* increment.
j2d_add_bookmark_end_after(para, bookmark_id, counter) ==
    [para EXCEPT !.bookmarks =
        Append(@, [start_id |-> counter, end_id |-> counter + 1,
                   name |-> j2d_safe_bookmark_id(bookmark_id)])]

\* add_bookmark(paragraph, bookmark_id): the paragraph with the bookmark's
\* start and end anchors, both carrying unique_id and the sanitized name.
j2d_add_bookmark(para, bookmark_id, counter) ==
    [para EXCEPT !.bookmarks =
        Append(@, [start_id |-> counter, end_id |-> counter,
                   name |-> j2d_safe_bookmark_id(bookmark_id)])]

\* add_page_ref(paragraph, bookmark_id): the PAGEREF field names the
\* sanitized id; the displayed value is the placeholder "0".
j2d_add_page_ref(para, bookmark_id) ==
    [para EXCEPT
        !.runs = Append(@, <<" ">>),
        !.page_refs = Append(@, j2d_safe_bookmark_id(bookmark_id))]


\* data['book']: the title is always there, subtitle and author may be empty.
Books == { [subtitle |-> FALSE, author |-> FALSE], [subtitle |-> TRUE, author |-> TRUE] }

j2d_Init ==
    /\ FORCE_BLANK_VERSO_PAGES \in BOOLEAN
    /\ j2d_data \in [book : Books, dedication : Dedications,
                     chapters : SeqUpTo(Chapters, MaxChapters)]
    /\ j2d_pc = "title"
    /\ j2d_doc = <<InitialSection>>
    /\ j2d_i = 0
    /\ j2d_bookmark_id_counter = 0
    /\ j2d_saved = FALSE

j2d_Idle ==
    /\ FORCE_BLANK_VERSO_PAGES = FALSE
    /\ j2d_data = [book |-> [subtitle |-> FALSE, author |-> FALSE],
                   dedication |-> NoDedication, chapters |-> <<>>]
    /\ j2d_pc = "idle"
    /\ j2d_doc = <<>>
    /\ j2d_i = 0
    /\ j2d_bookmark_id_counter = 0
    /\ j2d_saved = FALSE

\* The paragraphs of a list appended to the doc in order.
RECURSIVE add_paragraphs(_, _)
add_paragraphs(doc, paras) ==
    IF paras = <<>> THEN doc
    ELSE add_paragraphs(add_paragraph(doc, Head(paras)), Tail(paras))

\* create_title_page(doc, data['book'])
create_title_page(doc, book_data) ==
    LET d1 == setup_last(doc, <<>>, TRUE, TRUE, FALSE)
    IN  add_paragraphs(d1,
            << Para("BookTitle", << <<"TITLE">> >>, 0) >>
            \o (IF book_data.subtitle
                THEN << Para("BookSubtitle", << <<"subtitle">> >>, 0) >> ELSE <<>>)
            \o (IF book_data.author
                THEN << Para("BookSubtitle", << <<"by", "author">> >>, 0) >> ELSE <<>>))

\* create_dedication_page(doc, dedication_data)
create_dedication_page(doc, dedication_data) ==
    IF DedicationIsEmpty(dedication_data) THEN doc
    ELSE LET d1 == add_section(doc, "ODD_PAGE")
             d2 == setup_last(d1, <<>>, TRUE, TRUE, FALSE)
         IN  add_paragraphs(d2,
                 (IF dedication_data.to # ""
                  THEN << Para("DedicationTo", << <<dedication_data.to>> >>, 0) >> ELSE <<>>)
                 \o (IF dedication_data.from # ""
                     THEN << Para("DedicationFrom", << <<dedication_data.from>> >>, 0) >>
                     ELSE <<>>)
                 \o (IF dedication_data.credits # <<>>
                     THEN << Para("DedicationFrom", <<>>, 0) >>
                          \o [k \in DOMAIN dedication_data.credits |->
                                Para("DedicationCredits", << <<dedication_data.credits[k]>> >>, 0)]
                     ELSE <<>>))

\* Mutant of toc_entry: the page reference names the chapter after this one.
toc_entry_next_number(chapter) ==
    j2d_add_page_ref(
        Para("TOC Entry",
             << roman_numeral(chapter.number) \o <<".">>, <<"\t">>,
                to_title_case(chapter.title), <<"\t">> >>, 0),
        chapter_bookmark_id(chapter.number + 1))

\* One TOC entry of create_table_of_contents: "I.", tab, title, tab, PAGEREF.
toc_entry(chapter) ==
    j2d_add_page_ref(
        Para("TOC Entry",
             << roman_numeral(chapter.number) \o <<".">>, <<"\t">>,
                to_title_case(chapter.title), <<"\t">> >>, 0),
        chapter_bookmark_id(chapter.number))

\* The chapters in ascending order of their numbers (insertion sort).
RECURSIVE sorted_by_number(_)
sorted_by_number(chapters) ==
    IF chapters = <<>> THEN <<>>
    ELSE LET rest == sorted_by_number(Tail(chapters))
             before == SelectSeq(rest, LAMBDA c : c.number < Head(chapters).number)
             after == SelectSeq(rest, LAMBDA c : c.number >= Head(chapters).number)
         IN  before \o <<Head(chapters)>> \o after

\* Mutant of create_table_of_contents: the entries are sorted by chapter
\* number.
create_table_of_contents_sorted(doc, chapters) ==
    LET d1 == add_section(doc, "ODD_PAGE")
        d2 == setup_last(d1, <<"TABLE", "OF", "CONTENTS">>, FALSE, TRUE, FALSE)
        d3 == add_paragraph(d2, Para("TOCHeading", << <<"TABLE", "OF", "CONTENTS">> >>, 0))
        sorted == sorted_by_number(chapters)
    IN  add_paragraphs(d3, [k \in DOMAIN sorted |-> toc_entry(sorted[k])])

\* Mutant of create_table_of_contents: the section starts on the next page,
\* odd or even.
create_table_of_contents_new_page(doc, chapters) ==
    LET d1 == add_section(doc, "NEW_PAGE")
        d2 == setup_last(d1, <<"TABLE", "OF", "CONTENTS">>, FALSE, TRUE, FALSE)
        d3 == add_paragraph(d2, Para("TOCHeading", << <<"TABLE", "OF", "CONTENTS">> >>, 0))
    IN  add_paragraphs(d3, [k \in DOMAIN chapters |-> toc_entry(chapters[k])])

\* create_table_of_contents(doc, chapters)
create_table_of_contents(doc, chapters) ==
    LET d1 == add_section(doc, "ODD_PAGE")
        d2 == setup_last(d1, <<"TABLE", "OF", "CONTENTS">>, FALSE, TRUE, FALSE)
        d3 == add_paragraph(d2, Para("TOCHeading", << <<"TABLE", "OF", "CONTENTS">> >>, 0))
    IN  add_paragraphs(d3, [k \in DOMAIN chapters |-> toc_entry(chapters[k])])

\* The body paragraphs that the loop over chapter['paragraphs'] adds.
RECURSIVE body_paragraphs(_, _)
body_paragraphs(items, of) ==
    IF items = <<>> THEN <<>>
    ELSE LET item == Head(items)
             rest == body_paragraphs(Tail(items), of)
         IN  CASE item = "str" -> << Para("Normal", << <<"text">> >>, of) >> \o rest
               [] item = "quote" -> << Para("Quote", << <<"text">> >>, of) >> \o rest
               [] item = "other_type" -> << Para("Normal", << <<"text">> >>, of) >> \o rest
               [] OTHER -> rest

\* Mutant of blank_verso_section: the first chapter gets a blank verso
\* section only when the flag asks for one.
blank_verso_section_flag_only(doc, force, first_page, chapter_title) ==
    IF force
    THEN setup_last(add_section(doc, "EVEN_PAGE"), chapter_title, FALSE, first_page, FALSE)
    ELSE doc

\* The blank verso section of process_chapters, when one is asked for.
blank_verso_section(doc, force, first_page, chapter_title) ==
    IF force \/ first_page
    THEN setup_last(add_section(doc, "EVEN_PAGE"), chapter_title, FALSE, first_page, FALSE)
    ELSE doc

\* Mutant of chapter_section: the section starts on the next page, odd or
\* even.
chapter_section_next_page(doc, first_page, chapter_title) ==
    setup_last(add_section(doc, "NEW_PAGE"), chapter_title, FALSE, FALSE, first_page)

\* Mutant of chapter_section: only the first chapter gets a section of its
\* own, a later chapter goes on in the section before it.
chapter_section_shared(doc, first_page, chapter_title) ==
    IF first_page
    THEN setup_last(add_section(doc, "ODD_PAGE"), chapter_title, FALSE, FALSE, first_page)
    ELSE setup_last(doc, chapter_title, FALSE, FALSE, first_page)

\* The section that takes the chapter content.
chapter_section(doc, first_page, chapter_title) ==
    setup_last(add_section(doc, "ODD_PAGE"), chapter_title, FALSE, FALSE, first_page)

\* One iteration of the loop of process_chapters, for the chapter at 0-based
\* index i; of is its 1-based position.
process_chapter(doc, chapter, i, force, counter) ==
    LET chapter_title == to_title_case(chapter.title)
        first_page == (i = 0)
        d1 == blank_verso_section(doc, force, first_page, chapter_title)
        d2 == chapter_section(d1, first_page, chapter_title)
        chapter_num_para ==
            j2d_add_bookmark(
                Para("ChapterNumber",
                     << <<"CHAPTER", " ">> \o roman_numeral(chapter.number) >>, i + 1),
                chapter_bookmark_id(chapter.number), counter)
        d3 == add_paragraph(d2, chapter_num_para)
        d4 == add_paragraph(d3, Para("ChapterTitle", <<chapter_title>>, i + 1))
    IN  add_paragraphs(d4, body_paragraphs(chapter.paragraphs, i + 1))

\* process_chapters(doc, chapters) from the chapter at 0-based index i on:
\* the doc after the last iteration of the loop.
RECURSIVE process_chapters_from(_, _, _, _, _)
process_chapters_from(doc, chapters, i, force, counter) ==
    IF i >= Len(chapters) THEN doc
    ELSE process_chapters_from(
             process_chapter(doc, chapters[i + 1], i, force, counter),
             chapters, i + 1, force, counter + 1)

process_chapters(doc, chapters, force, counter) ==
    process_chapters_from(doc, chapters, 0, force, counter)

\* process_document as one function of the loaded data and the flag: the doc
\* that doc.save writes.
process_document(data, force) ==
    LET d1 == create_title_page(<<InitialSection>>, data.book)
        d2 == IF data.dedication.present
              THEN create_dedication_page(d1, data.dedication)
              ELSE d1
        d3 == create_table_of_contents(d2, data.chapters)
    IN  process_chapters(d3, data.chapters, force, 0)

\* The most pages the content of one section fills.
MaxPages == 2

\* The renderer's rule for the first page of a section that follows a page
\* numbered prev_last: the next page, or the one after it when the section
\* asks for the other parity (a blank page is inserted).
render_start_page(start_type, prev_last) ==
    LET n == prev_last + 1
    IN  CASE start_type = "ODD_PAGE" -> IF n % 2 = 1 THEN n ELSE n + 1
          [] start_type = "EVEN_PAGE" -> IF n % 2 = 0 THEN n ELSE n + 1
          [] OTHER -> n

\* The page counts a renderer may give the sections of a doc: at least one
\* page each, and one page exactly for a section without content.
render_page_counts(doc) ==
    {pages \in [DOMAIN doc -> 1..MaxPages] :
        \A k \in DOMAIN doc : doc[k].body = <<>> => pages[k] = 1}

\* The first and last page of each section from section k on, the section
\* before ending on page prev_last.
RECURSIVE render_layout(_, _, _, _)
render_layout(doc, pages, k, prev_last) ==
    IF k > Len(doc) THEN <<>>
    ELSE LET first == render_start_page(doc[k].start_type, prev_last)
             last == first + pages[k] - 1
         IN  <<[first |-> first, last |-> last]>> \o render_layout(doc, pages, k + 1, last)

\* process_document: create_title_page
j2d_CreateTitlePage ==
    /\ UNCHANGED <<h2d_vars, h2j_vars, rn_vars, ws_vars, bm_vars, tc_vars>>
    /\ j2d_pc = "title"
    /\ j2d_doc' = create_title_page(j2d_doc, j2d_data.book)
    /\ j2d_pc' = "dedication"
    /\ UNCHANGED <<FORCE_BLANK_VERSO_PAGES, j2d_data, j2d_i, j2d_bookmark_id_counter,
                   j2d_saved>>

\* process_document: "if 'dedication' in data: create_dedication_page(...)"
j2d_CreateDedicationPage ==
    /\ UNCHANGED <<h2d_vars, h2j_vars, rn_vars, ws_vars, bm_vars, tc_vars>>
    /\ j2d_pc = "dedication"
    /\ j2d_doc' = IF j2d_data.dedication.present
                  THEN create_dedication_page(j2d_doc, j2d_data.dedication)
                  ELSE j2d_doc
    /\ j2d_pc' = "toc"
    /\ UNCHANGED <<FORCE_BLANK_VERSO_PAGES, j2d_data, j2d_i, j2d_bookmark_id_counter,
                   j2d_saved>>

\* process_document: create_table_of_contents
j2d_CreateTableOfContents ==
    /\ UNCHANGED <<h2d_vars, h2j_vars, rn_vars, ws_vars, bm_vars, tc_vars>>
    /\ j2d_pc = "toc"
    /\ j2d_doc' = create_table_of_contents(j2d_doc, j2d_data.chapters)
    /\ j2d_pc' = "chapters"
    /\ j2d_i' = 0
    /\ UNCHANGED <<FORCE_BLANK_VERSO_PAGES, j2d_data, j2d_bookmark_id_counter, j2d_saved>>

\* process_chapters: one iteration of "for i, chapter in enumerate(chapters)"
j2d_ProcessChapter ==
    /\ UNCHANGED <<h2d_vars, h2j_vars, rn_vars, ws_vars, bm_vars, tc_vars>>
    /\ j2d_pc = "chapters"
    /\ j2d_i < Len(j2d_data.chapters)
    /\ j2d_doc' = process_chapter(j2d_doc, j2d_data.chapters[j2d_i + 1], j2d_i,
                                  FORCE_BLANK_VERSO_PAGES, j2d_bookmark_id_counter)
    /\ j2d_bookmark_id_counter' = j2d_bookmark_id_counter + 1
    /\ j2d_i' = j2d_i + 1
    /\ UNCHANGED <<FORCE_BLANK_VERSO_PAGES, j2d_data, j2d_pc, j2d_saved>>

\* process_document: doc.save(output_file), after the last chapter
j2d_Save ==
    /\ UNCHANGED <<h2d_vars, h2j_vars, rn_vars, ws_vars, bm_vars, tc_vars>>
    /\ j2d_pc = "chapters"
    /\ j2d_i = Len(j2d_data.chapters)
    /\ j2d_saved' = TRUE
    /\ j2d_pc' = "done"
    /\ UNCHANGED <<FORCE_BLANK_VERSO_PAGES, j2d_data, j2d_doc, j2d_i,
                   j2d_bookmark_id_counter>>

j2d_Next ==
    \/ j2d_CreateTitlePage
    \/ j2d_CreateDedicationPage
    \/ j2d_CreateTableOfContents
    \/ j2d_ProcessChapter
    \/ j2d_Save


(***************************************************************************)
(* html_to_json_converter.py                                               *)
(*                                                                         *)
(* The document is the list of the sibling nodes that hold the chapter     *)
(* headings and their blocks; next_sibling is the next position.  A text   *)
(* is the list of its whitespace-separated words.                          *)
(***************************************************************************)

\* The longest list of sibling elements.
MaxElements == 4

\* The word that is the em-dash character U+2014.
EmDash == "EM DASH"

\* An element: its tag name, the words of get_text(), and whether one of its
\* children is a tag (not a NavigableString).
Element(name, text, nested) == [name |-> name, text |-> text, nested |-> nested]

SourceElements ==
    { Element("h2", <<"CHAPTER", "I", EmDash, "A">>, FALSE),
      Element("h2", <<"CHAPTER", "II", EmDash, "B">>, FALSE),
      Element("h2", <<"CHAPTER", "I">>, FALSE),
      Element("h2", <<"by", "X">>, FALSE),
      Element("p", <<"text">>, FALSE),
      Element("p", <<"text">>, TRUE),
      Element("p", <<>>, TRUE),
      Element("pre", <<"text">>, FALSE),
      Element("pre", <<"text">>, TRUE),
      Element("div", <<"text">>, FALSE),
      Element("div", <<>>, FALSE),
      Element("h3", <<"THE", "END">>, FALSE),
      Element("section", <<"***", "END OF THE PROJECT GUTENBERG", "EBOOK">>, TRUE) }

\* The characters of a word made of Roman digits only; <<>> for other words.
roman_chars(w) ==
    CASE w = "I" -> <<"I">>
      [] w = "II" -> <<"I", "I">>
      [] OTHER -> <<>>

\* re.search(r'CHAPTER\s+[IVXLCDM]+', text, re.IGNORECASE): somewhere the
\* keyword is followed by whitespace and a Roman digit.
chapter_search(text) ==
    \E k \in 1..(Len(text) - 1) :
        /\ text[k] \in {"CHAPTER", "chapter"}
        /\ roman_chars(text[k + 1]) # <<>>

\* re.match(r'CHAPTER\s+([IVXLCDM]+)\s+\u2014\s+(.+)', heading_text, re.IGNORECASE)
chapter_match(text) ==
    /\ Len(text) >= 4
    /\ text[1] \in {"CHAPTER", "chapter"}
    /\ roman_chars(text[2]) # <<>>
    /\ text[3] = EmDash

\* parse_chapter_heading(heading_text): the (number, title) or the ValueError.
parse_chapter_heading(text) ==
    IF chapter_match(text)
    THEN LET r == roman_to_int(roman_chars(text[2]))
         IN  IF r.raised
             THEN [raised |-> "roman", number |-> 0, title |-> <<>>]
             ELSE [raised |-> "", number |-> r.value, title |-> SubSeq(text, 4, Len(text))]
    ELSE [raised |-> "heading", number |-> 0, title |-> <<>>]

\* has_text_content(element)
h2j_has_text_content(element) ==
    IF element.name \in {"br", "hr"} THEN FALSE ELSE element.text # <<>>

\* validate_element_in_strict_mode(element): TRUE when it raises.
validate_element_in_strict_mode(element) == element.nested

\* "current_element.name == 'h2' and re.search(...)": the next chapter heading.
is_chapter_heading(element) == element.name = "h2" /\ chapter_search(element.text)

\* The <h3> whose text is "THE END".
is_the_end(element) == element.name = "h3" /\ element.text = <<"THE", "END">>

\* The <section> whose text contains the footer marker.
is_footer(element) ==
    /\ element.name = "section"
    /\ \E k \in DOMAIN element.text : element.text[k] = "END OF THE PROJECT GUTENBERG"

\* Mutant of strict_check: <div> is taken for an allowed tag.
strict_check_div_allowed(strict_mode, element) ==
    IF strict_mode /\ element.name # "" /\ element.name \notin {"p", "pre", "div"}
    THEN IF is_the_end(element) \/ is_footer(element) THEN "skip"
         ELSE IF h2j_has_text_content(element) THEN "raise"
         ELSE "pass"
    ELSE "pass"

\* Mutant of strict_check: the "THE END" special case is missing.
strict_check_no_the_end(strict_mode, element) ==
    IF strict_mode /\ element.name # "" /\ element.name \notin {"p", "pre"}
    THEN IF is_footer(element) THEN "skip"
         ELSE IF h2j_has_text_content(element) THEN "raise"
         ELSE "pass"
    ELSE "pass"

\* The strict-mode branch of the walk for an element that is no <p> or <pre>:
\* "skip" for the two special cases, "raise" for any other element with
\* text, "pass" otherwise.
strict_check(strict_mode, element) ==
    IF strict_mode /\ element.name # "" /\ element.name \notin {"p", "pre"}
    THEN IF is_the_end(element) \/ is_footer(element) THEN "skip"
         ELSE IF h2j_has_text_content(element) THEN "raise"
         ELSE "pass"
    ELSE "pass"

\* Mutant of block_type: a <pre> is copied as a plain paragraph string.
block_type_pre_as_p(element) ==
    IF element.name \in {"p", "pre"} /\ h2j_has_text_content(element) THEN "p"
    ELSE ""

\* The block an element is copied to: "p" or "quote", "" for none.
block_type(element) ==
    IF element.name = "p" /\ h2j_has_text_content(element) THEN "p"
    ELSE IF element.name = "pre" /\ h2j_has_text_content(element) THEN "quote"
    ELSE ""

\* Mutant of block_validated: the <pre> branch does not validate.
block_validated_p_only(strict_mode, element) == strict_mode /\ element.name = "p"

\* Whether an accepted block is validated before it is copied.
block_validated(strict_mode, element) == strict_mode

\* Mutant of strict_mode_after_heading: strict mode holds for the first
\* chapter only.
strict_mode_first_chapter_only(i, strict_mode) == (i = 0)

\* "if i == 0: strict_mode = True": strict_mode after the heading of
\* iteration i has been parsed.
strict_mode_after_heading(i, strict_mode) == IF i = 0 THEN TRUE ELSE strict_mode

\* current_element.next_sibling, 0 for None.
next_sibling(source, pos) == IF pos < Len(source) THEN pos + 1 ELSE 0

\* soup.find_all('h2') filtered by the chapter pattern: the positions, in
\* document order.
RECURSIVE chapter_positions(_, _)
chapter_positions(source, pos) ==
    IF pos > Len(source) THEN <<>>
    ELSE (IF is_chapter_heading(source[pos]) THEN <<pos>> ELSE <<>>)
         \o chapter_positions(source, pos + 1)

find_chapter_headings(source) == chapter_positions(source, 1)

\* The first position at or after pos whose element satisfies name and
\* the test on its text, 0 for none.
RECURSIVE find_first(_, _, _, _)
find_first(source, pos, name, by) ==
    IF pos > Len(source) THEN 0
    ELSE IF source[pos].name = name /\ (~by \/ "by" \in Range(source[pos].text)) THEN pos
    ELSE find_first(source, pos + 1, name, by)

\* The metadata part of convert_html_to_json: title from the first <h1>,
\* subtitle from the first <h3>, author from the first <h2> with "by".
extract_metadata(source) ==
    LET t == find_first(source, 1, "h1", FALSE)
        s == find_first(source, 1, "h3", FALSE)
        a == find_first(source, 1, "h2", TRUE)
    IN  [title |-> IF t = 0 THEN <<>> ELSE source[t].text,
         subtitle |-> IF s = 0 THEN <<>> ELSE source[s].text,
         author |-> IF a = 0 THEN <<>>
                    ELSE LET txt == source[a].text
                             k == CHOOSE j \in DOMAIN txt :
                                     txt[j] = "by" /\ \A m \in 1..(j - 1) : txt[m] # "by"
                         IN  SubSeq(txt, k + 1, Len(txt))]

NoBook == [title |-> <<>>, subtitle |-> <<>>, author |-> <<>>]

NoChapter == [number |-> 0, title |-> <<>>, paragraphs |-> <<>>]

h2j_Init ==
    /\ h2j_source \in SeqUpTo(SourceElements, MaxElements)
    /\ h2j_pc = "start"
    /\ h2j_chapter_headings = <<>>
    /\ h2j_i = 0
    /\ h2j_current_element = 0
    /\ h2j_strict_mode = FALSE
    /\ h2j_book = NoBook
    /\ h2j_chapter = NoChapter
    /\ h2j_paragraphs = <<>>
    /\ h2j_chapters = <<>>
    /\ h2j_error = ""
    /\ h2j_written = FALSE
    /\ h2j_exit_code = -1

h2j_Idle ==
    /\ h2j_source = <<>>
    /\ h2j_pc = "idle"
    /\ h2j_chapter_headings = <<>>
    /\ h2j_i = 0
    /\ h2j_current_element = 0
    /\ h2j_strict_mode = FALSE
    /\ h2j_book = NoBook
    /\ h2j_chapter = NoChapter
    /\ h2j_paragraphs = <<>>
    /\ h2j_chapters = <<>>
    /\ h2j_error = ""
    /\ h2j_written = FALSE
    /\ h2j_exit_code = -1


\* A block of a chapter: a string ("p") or a quote object ("quote"); src is
\* the position of the element whose text it holds.
Block(type, src) == [type |-> type, src |-> src]

\* convert_html_to_json up to the chapter loop: metadata, then the chapter
\* headings found and filtered.
h2j_FindChapters ==
    /\ UNCHANGED <<j2d_vars, h2d_vars, rn_vars, ws_vars, bm_vars, tc_vars>>
    /\ h2j_pc = "start"
    /\ h2j_book' = extract_metadata(h2j_source)
    /\ h2j_chapter_headings' = find_chapter_headings(h2j_source)
    /\ h2j_strict_mode' = FALSE
    /\ h2j_i' = 0
    /\ h2j_pc' = "loop"
    /\ UNCHANGED <<h2j_source, h2j_current_element, h2j_chapter, h2j_paragraphs,
                   h2j_chapters, h2j_error, h2j_written, h2j_exit_code>>

\* The head of one iteration of "for i, heading in enumerate(chapter_headings)":
\* the heading is parsed, the walk starts at its next sibling, and the first
\* iteration switches strict mode on.
h2j_BeginChapter ==
    /\ UNCHANGED <<j2d_vars, h2d_vars, rn_vars, ws_vars, bm_vars, tc_vars>>
    /\ h2j_pc = "loop"
    /\ h2j_i < Len(h2j_chapter_headings)
    /\ LET heading == h2j_chapter_headings[h2j_i + 1]
           parsed == parse_chapter_heading(h2j_source[heading].text)
       IN  IF parsed.raised # ""
           THEN /\ h2j_error' = parsed.raised
                /\ h2j_pc' = "error"
                /\ UNCHANGED <<h2j_chapter, h2j_paragraphs, h2j_current_element,
                               h2j_strict_mode>>
           ELSE /\ h2j_chapter' = [number |-> parsed.number, title |-> parsed.title,
                                   paragraphs |-> <<>>]
                /\ h2j_paragraphs' = <<>>
                /\ h2j_current_element' = next_sibling(h2j_source, heading)
                /\ h2j_strict_mode' = strict_mode_after_heading(h2j_i, h2j_strict_mode)
                /\ h2j_pc' = "walk"
                /\ UNCHANGED h2j_error
    /\ UNCHANGED <<h2j_source, h2j_chapter_headings, h2j_i, h2j_book, h2j_chapters,
                   h2j_written, h2j_exit_code>>

\* One pass of the body of "while current_element" that does not break.
h2j_WalkElement ==
    /\ UNCHANGED <<j2d_vars, h2d_vars, rn_vars, ws_vars, bm_vars, tc_vars>>
    /\ h2j_pc = "walk"
    /\ h2j_current_element # 0
    /\ ~is_chapter_heading(h2j_source[h2j_current_element])
    /\ LET element == h2j_source[h2j_current_element]
           checked == strict_check(h2j_strict_mode, element)
           type == block_type(element)
           next == next_sibling(h2j_source, h2j_current_element)
       IN  IF checked = "raise"
           THEN /\ h2j_error' = "strict_element"
                /\ h2j_pc' = "error"
                /\ UNCHANGED <<h2j_paragraphs, h2j_current_element>>
           ELSE IF checked = "skip"
           THEN /\ h2j_current_element' = next
                /\ UNCHANGED <<h2j_paragraphs, h2j_error, h2j_pc>>
           ELSE IF type # "" /\ block_validated(h2j_strict_mode, element)
                             /\ validate_element_in_strict_mode(element)
           THEN /\ h2j_error' = "strict_nested"
                /\ h2j_pc' = "error"
                /\ UNCHANGED <<h2j_paragraphs, h2j_current_element>>
           ELSE /\ h2j_paragraphs' =
                       IF type # "" THEN Append(h2j_paragraphs, Block(type, h2j_current_element))
                       ELSE h2j_paragraphs
                /\ h2j_current_element' = next
                /\ UNCHANGED <<h2j_error, h2j_pc>>
    /\ UNCHANGED <<h2j_source, h2j_chapter_headings, h2j_i, h2j_strict_mode, h2j_book,
                   h2j_chapter, h2j_chapters, h2j_written, h2j_exit_code>>

\* A converter that dumps book_data to the output file after every chapter
\* instead of once after the loop.
h2j_EndChapter_dump_each ==
    /\ UNCHANGED <<j2d_vars, h2d_vars, rn_vars, ws_vars, bm_vars, tc_vars>>
    /\ h2j_pc = "walk"
    /\ \/ h2j_current_element = 0
       \/ /\ h2j_current_element # 0
          /\ is_chapter_heading(h2j_source[h2j_current_element])
    /\ h2j_chapters' = Append(h2j_chapters,
                              [h2j_chapter EXCEPT !.paragraphs = h2j_paragraphs])
    /\ h2j_chapter' = [h2j_chapter EXCEPT !.paragraphs = h2j_paragraphs]
    /\ h2j_i' = h2j_i + 1
    /\ h2j_pc' = "loop"
    /\ h2j_written' = TRUE
    /\ UNCHANGED <<h2j_source, h2j_chapter_headings, h2j_current_element,
                   h2j_strict_mode, h2j_book, h2j_paragraphs, h2j_error,
                   h2j_exit_code>>

\* The walk ends (no sibling left, or the next chapter heading: break) and
\* the chapter is added to book_data["chapters"].
h2j_EndChapter ==
    /\ UNCHANGED <<j2d_vars, h2d_vars, rn_vars, ws_vars, bm_vars, tc_vars>>
    /\ h2j_pc = "walk"
    /\ \/ h2j_current_element = 0
       \/ /\ h2j_current_element # 0
          /\ is_chapter_heading(h2j_source[h2j_current_element])
    /\ h2j_chapters' = Append(h2j_chapters,
                              [h2j_chapter EXCEPT !.paragraphs = h2j_paragraphs])
    /\ h2j_chapter' = [h2j_chapter EXCEPT !.paragraphs = h2j_paragraphs]
    /\ h2j_i' = h2j_i + 1
    /\ h2j_pc' = "loop"
    /\ UNCHANGED <<h2j_source, h2j_chapter_headings, h2j_current_element,
                   h2j_strict_mode, h2j_book, h2j_paragraphs, h2j_error,
                   h2j_written, h2j_exit_code>>

\* After the last chapter: json.dump to the output file.
h2j_WriteJson ==
    /\ UNCHANGED <<j2d_vars, h2d_vars, rn_vars, ws_vars, bm_vars, tc_vars>>
    /\ h2j_pc = "loop"
    /\ h2j_i = Len(h2j_chapter_headings)
    /\ h2j_written' = TRUE
    /\ h2j_pc' = "done"
    /\ UNCHANGED <<h2j_source, h2j_chapter_headings, h2j_i, h2j_current_element,
                   h2j_strict_mode, h2j_book, h2j_chapter, h2j_paragraphs,
                   h2j_chapters, h2j_error, h2j_exit_code>>

\* main: the conversion returned, or "except Exception: sys.exit(1)".
h2j_Exit ==
    /\ UNCHANGED <<j2d_vars, h2d_vars, rn_vars, ws_vars, bm_vars, tc_vars>>
    /\ h2j_pc \in {"done", "error"}
    /\ h2j_exit_code' = IF h2j_pc = "error" THEN 1 ELSE 0
    /\ h2j_pc' = IF h2j_pc = "error" THEN "failed" ELSE "exited"
    /\ UNCHANGED <<h2j_source, h2j_chapter_headings, h2j_i, h2j_current_element,
                   h2j_strict_mode, h2j_book, h2j_chapter, h2j_paragraphs,
                   h2j_chapters, h2j_error, h2j_written>>

h2j_Next ==
    \/ h2j_FindChapters
    \/ h2j_BeginChapter
    \/ h2j_WalkElement
    \/ h2j_EndChapter
    \/ h2j_WriteJson
    \/ h2j_Exit


(***************************************************************************)
(* html_to_docx_converter.py                                               *)
(*                                                                         *)
(* The soup is the list of its tags in document order.  A <p> holds the    *)
(* href of the link inside it; an <a> outside a <p> has its own href.      *)
(***************************************************************************)

\* The longest list of tags of a source.
MaxSoup == 3

\* No id attribute, no href attribute.
NoId == <<>>

\* The identifiers of the sources, as lists of characters.
Ids == { <<"x", "-">>, <<"x", "_">> }

Tag(name, id, text, href, toc) ==
    [name |-> name, id |-> id, text |-> text, href |-> href, toc |-> toc]

SoupElements ==
    {Tag("h2", i, TRUE, NoId, FALSE) : i \in Ids \cup {NoId}}
    \cup {Tag("h1", NoId, TRUE, NoId, FALSE)}
    \cup {Tag("p", i, TRUE, NoId, FALSE) : i \in Ids \cup {NoId}}
    \cup {Tag("p", NoId, TRUE, h, FALSE) : h \in Ids}
    \cup {Tag("p", <<"x", "_">>, TRUE, <<"x", "-">>, FALSE)}
    \cup {Tag("p", NoId, TRUE, NoId, TRUE)}
    \cup {Tag("p", <<"x", "-">>, FALSE, NoId, FALSE)}
    \cup {Tag("a", i, FALSE, NoId, FALSE) : i \in Ids}
    \cup {Tag("a", NoId, TRUE, <<"x", "-">>, FALSE)}
    \cup {Tag("div", <<"x", "-">>, TRUE, NoId, FALSE)}

HeadingNames == {"h1", "h2", "h3", "h4", "h5", "h6"}

WordChars == AlnumChars \cup {"_"}

\* re.sub(r'[^\w]', '_', bookmark_id)
h2d_safe_bookmark_id(bookmark_id) ==
    [k \in DOMAIN bookmark_id |->
        IF bookmark_id[k] \in WordChars THEN bookmark_id[k] ELSE "_"]

\* collect_bookmarks(soup): the keys of the dict, one per id in the source.
collect_bookmarks(soup) == {soup[k].id : k \in {j \in DOMAIN soup : soup[j].id # NoId}}

\* The positions pos..n that are in S, in document order.
RECURSIVE in_order(_, _, _)
in_order(S, pos, n) ==
    IF pos > n THEN <<>>
    ELSE (IF pos \in S THEN <<pos>> ELSE <<>>) \o in_order(S, pos + 1, n)

\* The filter of analyze_content: headings and paragraphs with text, and <a>
\* elements with an id.
analyze_keep(element) ==
    \/ element.name \in HeadingNames \cup {"p"} /\ element.text
    \/ element.name = "a" /\ element.id # NoId

analyze_content(soup) ==
    in_order({k \in DOMAIN soup : analyze_keep(soup[k])}, 1, Len(soup))

\* The fallback of process_document when analyze_content raises.
fallback_keep(element) == element.name \in HeadingNames \cup {"p"} /\ element.text

fallback_content(soup) ==
    in_order({k \in DOMAIN soup : fallback_keep(soup[k])}, 1, Len(soup))

\* The loop over soup.find_all('a', href=...): the fragments of the internal
\* links.
collect_toc_references(soup) ==
    {soup[k].href : k \in {j \in DOMAIN soup : soup[j].href # NoId}}

\* An item of the document body; src is the position of the source tag.
Item(kind, style, src) ==
    [kind |-> kind, style |-> style, bookmarks |-> <<>>, page_refs |-> <<>>, src |-> src]

\* add_bookmark(paragraph, bookmark_id) with the counter at value counter.
h2d_add_bookmark(paragraph, bookmark_id, counter) ==
    [paragraph EXCEPT !.bookmarks =
        Append(@, [start_id |-> counter, end_id |-> counter,
                   name |-> h2d_safe_bookmark_id(bookmark_id)])]

\* add_bookmark for each id of a list, in order.
RECURSIVE h2d_add_bookmarks(_, _, _)
h2d_add_bookmarks(paragraph, ids, counter) ==
    IF ids = <<>> THEN paragraph
    ELSE h2d_add_bookmarks(h2d_add_bookmark(paragraph, Head(ids), counter),
                           Tail(ids), counter + 1)

\* add_page_ref(paragraph, bookmark_id): the name is used as given.
h2d_add_page_ref(paragraph, bookmark_id) ==
    [paragraph EXCEPT !.page_refs = Append(@, bookmark_id)]

\* is_toc of process_toc: a <p> of class toc, or a <p> holding an internal link.
is_toc(element) == element.name = "p" /\ (element.toc \/ element.href # NoId)

\* The paragraph process_toc adds: no bookmark is added, with or without a link.
toc_paragraph(element, src) ==
    IF element.href # NoId
    THEN h2d_add_page_ref(Item("paragraph", "TOC", src), h2d_safe_bookmark_id(element.href))
    ELSE Item("paragraph", "TOC", src)

\* The ids process_heading and process_paragraph bookmark on the paragraph
\* they add: the element's own id, then the pending ones.
own_and_pending(element, pending_bookmarks) ==
    (IF element.id # NoId THEN <<h2d_safe_bookmark_id(element.id)>> ELSE <<>>)
    \o pending_bookmarks

\* Whether the element's id goes to the pending list.
goes_pending(element) ==
    element.id # NoId /\ element.name \notin HeadingNames \cup {"p"}


h2d_Init ==
    /\ h2d_soup \in SeqUpTo(SoupElements, MaxSoup)
    /\ h2d_pc = "start"
    /\ h2d_bookmarks = {}
    /\ h2d_elements = <<>>
    /\ h2d_toc_references = {}
    /\ h2d_idx = 0
    /\ h2d_doc = <<>>
    /\ h2d_pending_bookmarks = <<>>
    /\ h2d_toc_encountered = FALSE
    /\ h2d_bookmark_id_counter = 0
    /\ h2d_analysis_failed = FALSE
    /\ h2d_errors = <<>>
    /\ h2d_saved = FALSE
    /\ h2d_exit_code = -1

h2d_Idle ==
    /\ h2d_soup = <<>>
    /\ h2d_pc = "idle"
    /\ h2d_bookmarks = {}
    /\ h2d_elements = <<>>
    /\ h2d_toc_references = {}
    /\ h2d_idx = 0
    /\ h2d_doc = <<>>
    /\ h2d_pending_bookmarks = <<>>
    /\ h2d_toc_encountered = FALSE
    /\ h2d_bookmark_id_counter = 0
    /\ h2d_analysis_failed = FALSE
    /\ h2d_errors = <<>>
    /\ h2d_saved = FALSE
    /\ h2d_exit_code = -1

\* process_document up to the loop: collect_bookmarks, analyze_content (or
\* its fallback when it raises), the variables, the TOC references.
h2d_Prepare ==
    /\ UNCHANGED <<j2d_vars, h2j_vars, rn_vars, ws_vars, bm_vars, tc_vars>>
    /\ h2d_pc = "start"
    /\ h2d_bookmarks' = collect_bookmarks(h2d_soup)
    /\ \E failed \in BOOLEAN :
          /\ h2d_analysis_failed' = failed
          /\ h2d_elements' = IF failed THEN fallback_content(h2d_soup)
                             ELSE analyze_content(h2d_soup)
    /\ h2d_toc_encountered' = FALSE
    /\ h2d_pending_bookmarks' = <<>>
    /\ h2d_toc_references' = collect_toc_references(h2d_soup)
    /\ h2d_idx' = 0
    /\ h2d_pc' = "loop"
    /\ UNCHANGED <<h2d_soup, h2d_doc, h2d_bookmark_id_counter, h2d_errors, h2d_saved,
                   h2d_exit_code>>

\* The section break process_heading adds before an <h2> once a TOC was seen.
section_break(element, toc_encountered, src) ==
    IF element.name = "h2" /\ toc_encountered
    THEN <<Item("section", "NEW_PAGE", src)>> ELSE <<>>

\* One iteration of "for element in elements".
h2d_ProcessElement ==
    /\ UNCHANGED <<j2d_vars, h2j_vars, rn_vars, ws_vars, bm_vars, tc_vars>>
    /\ h2d_pc = "loop"
    /\ h2d_idx < Len(h2d_elements)
    /\ LET src == h2d_elements[h2d_idx + 1]
           element == h2d_soup[src]
           ids == own_and_pending(element, h2d_pending_bookmarks)
       IN  IF ~element.text /\ element.id = NoId
           THEN UNCHANGED <<h2d_doc, h2d_pending_bookmarks, h2d_toc_encountered,
                            h2d_bookmark_id_counter>>
           ELSE IF goes_pending(element)
           THEN /\ h2d_pending_bookmarks' = Append(h2d_pending_bookmarks, element.id)
                /\ UNCHANGED <<h2d_doc, h2d_toc_encountered, h2d_bookmark_id_counter>>
           ELSE IF is_toc(element)
           THEN /\ h2d_doc' = Append(h2d_doc, toc_paragraph(element, src))
                /\ h2d_toc_encountered' = TRUE
                /\ UNCHANGED <<h2d_pending_bookmarks, h2d_bookmark_id_counter>>
           ELSE IF element.name \in HeadingNames
           THEN /\ h2d_doc' = h2d_doc
                              \o section_break(element, h2d_toc_encountered, src)
                              \o << h2d_add_bookmarks(
                                      Item("paragraph", element.name, src), ids,
                                      h2d_bookmark_id_counter) >>
                /\ h2d_bookmark_id_counter' = h2d_bookmark_id_counter + Len(ids)
                /\ h2d_pending_bookmarks' = <<>>
                /\ UNCHANGED h2d_toc_encountered
           ELSE IF element.name = "p"
           THEN /\ h2d_doc' = Append(h2d_doc,
                                     h2d_add_bookmarks(Item("paragraph", "Normal", src), ids,
                                                       h2d_bookmark_id_counter))
                /\ h2d_bookmark_id_counter' = h2d_bookmark_id_counter + Len(ids)
                /\ h2d_pending_bookmarks' = <<>>
                /\ UNCHANGED h2d_toc_encountered
           ELSE UNCHANGED <<h2d_doc, h2d_pending_bookmarks, h2d_toc_encountered,
                            h2d_bookmark_id_counter>>
    /\ h2d_idx' = h2d_idx + 1
    /\ UNCHANGED <<h2d_soup, h2d_pc, h2d_bookmarks, h2d_elements, h2d_toc_references,
                   h2d_analysis_failed, h2d_errors, h2d_saved, h2d_exit_code>>

\* Mutant of missing_bookmarks: the first offender only.
missing_bookmarks_first(toc_references, bookmarks) ==
    IF toc_references \ bookmarks = {} THEN {}
    ELSE {CHOOSE id \in toc_references \ bookmarks : TRUE}

\* Mutant of missing_bookmarks: the difference taken the wrong way round.
missing_bookmarks_reversed(toc_references, bookmarks) == bookmarks \ toc_references

\* "missing_bookmarks = toc_references - set(bookmarks.keys())"
missing_bookmarks(toc_references, bookmarks) == toc_references \ bookmarks

\* After the loop: "if missing_bookmarks: raise ValueError(...)", one error
\* naming all of them.
h2d_RaiseMissing ==
    /\ UNCHANGED <<j2d_vars, h2j_vars, rn_vars, ws_vars, bm_vars, tc_vars>>
    /\ h2d_pc = "loop"
    /\ h2d_idx = Len(h2d_elements)
    /\ missing_bookmarks(h2d_toc_references, h2d_bookmarks) # {}
    /\ h2d_errors' = Append(h2d_errors,
                            missing_bookmarks(h2d_toc_references, h2d_bookmarks))
    /\ h2d_pc' = "error"
    /\ UNCHANGED <<h2d_soup, h2d_bookmarks, h2d_elements, h2d_toc_references, h2d_idx,
                   h2d_doc, h2d_pending_bookmarks, h2d_toc_encountered,
                   h2d_bookmark_id_counter, h2d_analysis_failed, h2d_saved,
                   h2d_exit_code>>

\* After the loop, nothing missing: doc.save(output_file).
h2d_Save ==
    /\ UNCHANGED <<j2d_vars, h2j_vars, rn_vars, ws_vars, bm_vars, tc_vars>>
    /\ h2d_pc = "loop"
    /\ h2d_idx = Len(h2d_elements)
    /\ missing_bookmarks(h2d_toc_references, h2d_bookmarks) = {}
    /\ h2d_saved' = TRUE
    /\ h2d_pc' = "done"
    /\ UNCHANGED <<h2d_soup, h2d_bookmarks, h2d_elements, h2d_toc_references, h2d_idx,
                   h2d_doc, h2d_pending_bookmarks, h2d_toc_encountered,
                   h2d_bookmark_id_counter, h2d_analysis_failed, h2d_errors,
                   h2d_exit_code>>

\* main: process_document returned, or "except Exception: sys.exit(1)".
h2d_Exit ==
    /\ UNCHANGED <<j2d_vars, h2j_vars, rn_vars, ws_vars, bm_vars, tc_vars>>
    /\ h2d_pc \in {"done", "error"}
    /\ h2d_exit_code' = IF h2d_pc = "error" THEN 1 ELSE 0
    /\ h2d_pc' = IF h2d_pc = "error" THEN "failed" ELSE "exited"
    /\ UNCHANGED <<h2d_soup, h2d_bookmarks, h2d_elements, h2d_toc_references, h2d_idx,
                   h2d_doc, h2d_pending_bookmarks, h2d_toc_encountered,
                   h2d_bookmark_id_counter, h2d_analysis_failed, h2d_errors, h2d_saved>>

h2d_Next ==
    \/ h2d_Prepare
    \/ h2d_ProcessElement
    \/ h2d_RaiseMissing
    \/ h2d_Save
    \/ h2d_Exit

(***************************************************************************)
(* add_bookmark of either converter, called any number of times for any    *)
(* number of documents in one process.  bookmark_id_counter of each module *)
(* is set to 0 when the module is loaded and by nothing else.              *)
(***************************************************************************)

\* The most documents made in one process.
MaxDocuments == 2

\* The most add_bookmark calls made in one process.
MaxBookmarks == 3

\* The bookmark ids passed to add_bookmark.
BookmarkIds == Ids \cup {chapter_bookmark_id(1)}

bm_Idle == bm_docs = <<>>

\* A document of one converter: the paragraphs that took a bookmark.
Document(module) == [module |-> module, paragraphs |-> <<>>]

\* Every bookmark made by a module, in the order of the calls.
RECURSIVE bookmarks_of_paragraphs(_)
bookmarks_of_paragraphs(paragraphs) ==
    IF paragraphs = <<>> THEN <<>>
    ELSE Head(paragraphs).bookmarks \o bookmarks_of_paragraphs(Tail(paragraphs))

RECURSIVE bookmarks_made(_, _)
bookmarks_made(docs, module) ==
    IF docs = <<>> THEN <<>>
    ELSE (IF Head(docs).module = module
          THEN bookmarks_of_paragraphs(Head(docs).paragraphs) ELSE <<>>)
         \o bookmarks_made(Tail(docs), module)

\* Document() of a new process_document call; the counters are not touched.
bm_NewDocument ==
    /\ UNCHANGED <<j2d_vars, h2d_vars, h2j_vars, rn_vars, ws_vars, tc_vars>>
    /\ Len(bm_docs) < MaxDocuments
    /\ \E module \in {"json_to_docx", "html_to_docx"} :
          bm_docs' = Append(bm_docs, Document(module))

\* The paragraphs of the last document with the paragraph that takes the
\* next bookmark at their end: the last one, or a blank one added when fresh.
with_target(paragraphs, fresh, blank) ==
    IF fresh \/ paragraphs = <<>> THEN Append(paragraphs, blank) ELSE paragraphs

\* json_to_docx_converter.add_bookmark(paragraph, bookmark_id)
bm_AddBookmarkJsonToDocx ==
    /\ UNCHANGED <<h2d_vars, h2j_vars, rn_vars, ws_vars, tc_vars>>
    /\ bm_docs # <<>>
    /\ bm_docs[Len(bm_docs)].module = "json_to_docx"
    /\ j2d_bookmark_id_counter + h2d_bookmark_id_counter < MaxBookmarks
    /\ \E bookmark_id \in BookmarkIds, fresh \in BOOLEAN :
          LET paragraphs == with_target(bm_docs[Len(bm_docs)].paragraphs, fresh,
                                        Para("ChapterNumber", <<>>, 0))
          IN  bm_docs' = [bm_docs EXCEPT ![Len(bm_docs)].paragraphs =
                              [paragraphs EXCEPT ![Len(paragraphs)] =
                                  j2d_add_bookmark(@, bookmark_id, j2d_bookmark_id_counter)]]
    /\ j2d_bookmark_id_counter' = j2d_bookmark_id_counter + 1
    /\ UNCHANGED <<FORCE_BLANK_VERSO_PAGES, j2d_data, j2d_pc, j2d_doc, j2d_i, j2d_saved>>

\* html_to_docx_converter.add_bookmark(paragraph, bookmark_id)
bm_AddBookmarkHtmlToDocx ==
    /\ UNCHANGED <<j2d_vars, h2j_vars, rn_vars, ws_vars, tc_vars>>
    /\ bm_docs # <<>>
    /\ bm_docs[Len(bm_docs)].module = "html_to_docx"
    /\ j2d_bookmark_id_counter + h2d_bookmark_id_counter < MaxBookmarks
    /\ \E bookmark_id \in BookmarkIds, fresh \in BOOLEAN :
          LET paragraphs == with_target(bm_docs[Len(bm_docs)].paragraphs, fresh,
                                        Item("paragraph", "Normal", 0))
          IN  bm_docs' = [bm_docs EXCEPT ![Len(bm_docs)].paragraphs =
                              [paragraphs EXCEPT ![Len(paragraphs)] =
                                  h2d_add_bookmark(@, bookmark_id, h2d_bookmark_id_counter)]]
    /\ h2d_bookmark_id_counter' = h2d_bookmark_id_counter + 1
    /\ UNCHANGED <<h2d_soup, h2d_pc, h2d_bookmarks, h2d_elements, h2d_toc_references,
                   h2d_idx, h2d_doc, h2d_pending_bookmarks, h2d_toc_encountered,
                   h2d_analysis_failed, h2d_errors, h2d_saved, h2d_exit_code>>

bm_Next ==
    \/ bm_NewDocument
    \/ bm_AddBookmarkJsonToDocx
    \/ bm_AddBookmarkHtmlToDocx

(***************************************************************************)
(* The specifications, one per converter.                                  *)
(***************************************************************************)

InitJsonToDocx == j2d_Init /\ h2d_Idle /\ h2j_Idle /\ rn_Idle /\ ws_Idle /\ bm_Idle /\ tc_Idle

\* json_to_docx_converter.py, process_document
SpecJsonToDocx == InitJsonToDocx /\ [][j2d_Next]_vars

InitHtmlToDocx == h2d_Init /\ j2d_Idle /\ h2j_Idle /\ rn_Idle /\ ws_Idle /\ bm_Idle /\ tc_Idle

\* html_to_docx_converter.py, main and process_document
SpecHtmlToDocx == InitHtmlToDocx /\ [][h2d_Next]_vars

InitHtmlToJson == h2j_Init /\ j2d_Idle /\ h2d_Idle /\ rn_Idle /\ ws_Idle /\ bm_Idle /\ tc_Idle

\* html_to_json_converter.py, main and convert_html_to_json
SpecHtmlToJson == InitHtmlToJson /\ [][h2j_Next]_vars

InitRoman == rn_Init /\ j2d_Idle /\ h2d_Idle /\ h2j_Idle /\ ws_Idle /\ bm_Idle /\ tc_Idle

\* roman_numeral and roman_to_int
SpecRoman == InitRoman /\ [][rn_Next]_vars

InitRomanToken == rn_TokenInit /\ j2d_Idle /\ h2d_Idle /\ h2j_Idle /\ ws_Idle /\ bm_Idle /\ tc_Idle

\* roman_to_int on arbitrary tokens
SpecRomanToken == InitRomanToken /\ [][rn_TokenNext]_vars

InitBookmarks ==
    bm_Idle /\ j2d_Idle /\ h2d_Idle /\ h2j_Idle /\ rn_Idle /\ ws_Idle /\ tc_Idle

\* add_bookmark over several documents of one process
SpecBookmarks == InitBookmarks /\ [][bm_Next]_vars

InitTitleCase ==
    tc_Init /\ j2d_Idle /\ h2d_Idle /\ h2j_Idle /\ rn_Idle /\ ws_Idle /\ bm_Idle

\* to_title_case
SpecTitleCase == InitTitleCase /\ [][tc_Next]_vars

InitWhitespace == ws_Init /\ j2d_Idle /\ h2d_Idle /\ h2j_Idle /\ rn_Idle /\ bm_Idle /\ tc_Idle

\* normalize_html_whitespace
SpecWhitespace == InitWhitespace /\ [][ws_Next]_vars

(***************************************************************************)
(* The claims                                                              *)
(***************************************************************************)

\* The sections of the doc that hold a paragraph of the chapter at position c.
C1_SectionsOf(c) ==
    {k \in DOMAIN j2d_doc :
        \E m \in DOMAIN j2d_doc[k].body : j2d_doc[k].body[m].of = c}

\* The owners of the paragraphs of section k: chapter positions, 0 for front
\* matter.
C1_Owners(k) == {j2d_doc[k].body[m].of : m \in DOMAIN j2d_doc[k].body}

\* C1: for any chapter list and either value of FORCE_BLANK_VERSO_PAGES, every
\* chapter processed so far has its heading, its bookmark and its paragraphs
\* in one section, that section was created with start type ODD_PAGE, and it
\* holds nothing of another chapter or of the front matter; no section of
\* start type EVEN_PAGE holds any paragraph of a chapter.
C1_ChapterBodyOnOddPage ==
    /\ \A c \in 1..j2d_i :
          /\ Cardinality(C1_SectionsOf(c)) = 1
          /\ \A k \in C1_SectionsOf(c) :
                /\ j2d_doc[k].start_type = "ODD_PAGE"
                /\ C1_Owners(k) = {c}
                /\ \E m \in DOMAIN j2d_doc[k].body :
                      /\ j2d_doc[k].body[m].style = "ChapterNumber"
                      /\ Len(j2d_doc[k].body[m].bookmarks) = 1
    /\ \A k \in DOMAIN j2d_doc :
          j2d_doc[k].start_type = "EVEN_PAGE" => C1_Owners(k) \subseteq {0}
    /\ \A k \in DOMAIN j2d_doc :
          C1_Owners(k) \subseteq 1..j2d_i \cup {0}

\* C1 witness: a saved book of two chapters with body paragraphs, with no
\* forced blank verso pages.
C1_Witness ==
    /\ j2d_saved
    /\ ~FORCE_BLANK_VERSO_PAGES
    /\ Len(j2d_data.chapters) >= 2
    /\ \A c \in 1..2 : j2d_data.chapters[c].paragraphs # <<>>

\* C10: for every integer n in 1..MaxNum, roman_to_int reads roman_numeral(n)
\* without error, and roman_numeral of what it read is roman_numeral(n) again.
C10_RomanRoundTrip ==
    /\ rn_pc \in {"back", "again"} => ~rn_back.raised
    /\ rn_pc = "again" => rn_again = rn_roman

\* C10 witness: the round trip of 1994 (MCMXCIV) has been made.
C10_Witness ==
    /\ rn_pc = "again"
    /\ rn_num = 1994
    /\ rn_roman = <<"M", "C", "M", "X", "C", "I", "V">>
    /\ rn_back.value = 1994

\* The positions of the <h2> elements whose text holds the keyword CHAPTER
\* followed by a Roman numeral: the chapter headings of the source.
HeadingPositions ==
    {k \in DOMAIN h2j_source :
        /\ h2j_source[k].name = "h2"
        /\ \E j \in 1..(Len(h2j_source[k].text) - 1) :
              /\ h2j_source[k].text[j] = "CHAPTER"
              /\ h2j_source[k].text[j + 1] \in {"I", "II"}}

\* The positions that lie after a chapter heading and are no chapter heading:
\* the siblings between one chapter heading and the next (or the end).
BodyPositions ==
    {k \in DOMAIN h2j_source \ HeadingPositions : \E h \in HeadingPositions : h < k}

\* The two exemptions: the <h3> that reads THE END, the <section> that holds
\* the footer marker.
Exempt(k) ==
    \/ h2j_source[k].name = "h3" /\ h2j_source[k].text = <<"THE", "END">>
    \/ /\ h2j_source[k].name = "section"
       /\ "END OF THE PROJECT GUTENBERG" \in Range(h2j_source[k].text)

\* A sibling that is no <p> or <pre>, has visible text and is not exempt.
Unrecognized(k) ==
    /\ h2j_source[k].name \notin {"p", "pre"}
    /\ h2j_source[k].text # <<>>
    /\ ~Exempt(k)

\* Every chapter heading has the full shape CHAPTER <numeral> <dash> <title>.
HeadingsWellFormed ==
    \A h \in HeadingPositions :
        /\ Len(h2j_source[h].text) >= 4
        /\ h2j_source[h].text[1] = "CHAPTER"
        /\ h2j_source[h].text[2] \in {"I", "II"}
        /\ h2j_source[h].text[3] = EmDash

\* The run has ended without error, or may still do so.
Succeeded == h2j_pc \in {"done", "exited"}

\* C6: if some sibling between a chapter heading and the next is no <p> or
\* <pre>, has visible text and is not one of the two exemptions, the
\* extraction does not succeed and nothing is written; if every such sibling
\* is a <p> or <pre> with only raw text as children, no strict-mode error is
\* raised, and with well-formed headings no error at all.
C6_StrictModeRejection ==
    /\ (\E k \in BodyPositions : Unrecognized(k)) =>
          /\ ~Succeeded
          /\ ~h2j_written
          /\ h2j_pc = "failed" => h2j_exit_code = 1
    /\ (\A k \in BodyPositions :
            h2j_source[k].name \in {"p", "pre"} /\ ~h2j_source[k].nested) =>
          /\ h2j_error \notin {"strict_element", "strict_nested"}
          /\ HeadingsWellFormed => h2j_error = "" /\ h2j_pc \notin {"error", "failed"}

\* C6 witness: the run failed on a <div> with text in a chapter body.
C6_Witness ==
    /\ h2j_pc = "failed"
    /\ h2j_error = "strict_element"
    /\ h2j_current_element \in BodyPositions
    /\ h2j_source[h2j_current_element].name = "div"
    /\ h2j_source[h2j_current_element].text # <<>>

\* All blocks collected so far, of finished chapters and of the current one.
AllBlocks ==
    UNION {Range(h2j_chapters[c].paragraphs) : c \in DOMAIN h2j_chapters}
    \cup Range(h2j_paragraphs)

\* C7: a text-bearing <p> or <pre> of a chapter body with a tag among its
\* children makes the extraction fail (nothing is written), and no block is
\* ever made of such an element.
C7_NestedTagRejected ==
    /\ (\E k \in BodyPositions :
            /\ h2j_source[k].name \in {"p", "pre"}
            /\ h2j_source[k].text # <<>>
            /\ h2j_source[k].nested) =>
          /\ ~Succeeded
          /\ ~h2j_written
    /\ \A b \in AllBlocks : ~h2j_source[b.src].nested

\* C7 witness: the run failed on a <pre> with text and a nested tag, after a
\* block of the same chapter had been accepted.
C7_Witness ==
    /\ h2j_pc = "failed"
    /\ h2j_error = "strict_nested"
    /\ h2j_source[h2j_current_element].name = "pre"
    /\ h2j_source[h2j_current_element].nested
    /\ h2j_paragraphs # <<>>

\* C8 (state part): no block is made of an exempt element, and no error is
\* raised at one.
C8_ExemptState ==
    /\ \A b \in AllBlocks : ~Exempt(b.src)
    /\ (h2j_pc = "error" /\ h2j_error \in {"strict_element", "strict_nested"}) =>
          ~Exempt(h2j_current_element)

\* C8 (step part): the step of the walk at an exempt element moves to the
\* next sibling and changes nothing else.
C8_ExemptStep ==
    (/\ h2j_pc = "walk"
     /\ h2j_current_element # 0
     /\ Exempt(h2j_current_element)) =>
        /\ h2j_pc' = "walk"
        /\ h2j_error' = ""
        /\ h2j_paragraphs' = h2j_paragraphs
        /\ h2j_chapters' = h2j_chapters
        /\ h2j_current_element' =
              IF h2j_current_element < Len(h2j_source) THEN h2j_current_element + 1 ELSE 0

\* C8: in strict mode the <h3> that reads THE END and the <section> with the
\* footer marker are skipped: no error, no block, and the walk goes on with
\* the next sibling.
C8_ExemptionsSkipped == []C8_ExemptState /\ [][C8_ExemptStep]_vars

\* C8 witness: a written model whose walk passed THE END and the footer and
\* took a block after them.
C8_Witness ==
    /\ h2j_written
    /\ \E k, m \in BodyPositions :
          /\ h2j_source[k].name = "h3" /\ Exempt(k)
          /\ h2j_source[m].name = "section" /\ Exempt(m)
          /\ \E b \in AllBlocks : b.src > k /\ b.src > m

\* The chapter headings in source order.
HeadingsInOrder == in_order(HeadingPositions, 1, Len(h2j_source))

\* The positions between the i-th chapter heading and the next one (or the
\* end) that hold a text-bearing <p> or <pre>, in source order.
BlockPositions(i) ==
    LET from == HeadingsInOrder[i]
        to == IF i < Len(HeadingsInOrder) THEN HeadingsInOrder[i + 1]
              ELSE Len(h2j_source) + 1
    IN  in_order({k \in (from + 1)..(to - 1) :
                     /\ h2j_source[k].name \in {"p", "pre"}
                     /\ h2j_source[k].text # <<>>},
                 1, Len(h2j_source))

\* The number a well-formed heading text stands for.
HeadingNumber(text) == IF text[2] = "I" THEN 1 ELSE 2

\* C9: when the extraction succeeds, the model has one chapter per chapter
\* heading, in source order, with the heading's number and title, and the
\* blocks of chapter i are the text-bearing <p> (paragraph) and <pre> (quote)
\* siblings between heading i and the next heading, in source order; no
\* block is in two chapters and none is lost.
C9_ChaptersAndBlocks ==
    h2j_written =>
        /\ Len(h2j_chapters) = Len(HeadingsInOrder)
        /\ \A i \in DOMAIN h2j_chapters :
              LET text == h2j_source[HeadingsInOrder[i]].text
                  expected == BlockPositions(i)
              IN  /\ h2j_chapters[i].number = HeadingNumber(text)
                  /\ h2j_chapters[i].title = SubSeq(text, 4, Len(text))
                  /\ Len(h2j_chapters[i].paragraphs) = Len(expected)
                  /\ \A m \in DOMAIN expected :
                        /\ h2j_chapters[i].paragraphs[m].src = expected[m]
                        /\ h2j_chapters[i].paragraphs[m].type =
                              IF h2j_source[expected[m]].name = "p" THEN "p" ELSE "quote"
        /\ \A i, j \in DOMAIN h2j_chapters :
              i # j => \A b \in Range(h2j_chapters[i].paragraphs) :
                          \A c \in Range(h2j_chapters[j].paragraphs) : b.src # c.src

\* C9 witness: a written model of two chapters, the first with a paragraph
\* followed by a quote.
C9_Witness ==
    /\ h2j_written
    /\ Len(h2j_chapters) = 2
    /\ Len(h2j_chapters[1].paragraphs) = 2
    /\ h2j_chapters[1].paragraphs[1].type = "p"
    /\ h2j_chapters[1].paragraphs[2].type = "quote"
    /\ h2j_chapters[1].number = 1
    /\ h2j_chapters[2].number = 2

\* The targets of the internal links of the source.
LinkTargets == {h2d_soup[k].href : k \in {j \in DOMAIN h2d_soup : h2d_soup[j].href # NoId}}

\* The ids carried by the elements of the source.
SourceIds == {h2d_soup[k].id : k \in {j \in DOMAIN h2d_soup : h2d_soup[j].id # NoId}}

\* The names of the bookmarks emitted into the document.
EmittedNames ==
    UNION {{h2d_doc[k].bookmarks[m].name : m \in DOMAIN h2d_doc[k].bookmarks} :
              k \in DOMAIN h2d_doc}

\* C2: in every saved document every internal link target resolves: a
\* bookmark named by the sanitized target has been emitted by add_bookmark.
C2_LinksResolve ==
    h2d_saved => \A t \in LinkTargets : h2d_safe_bookmark_id(t) \in EmittedNames

\* C3: when the missing-bookmark error is raised nothing has been rendered:
\* the document holds no paragraph, section, bookmark or page reference.
C3_ErrorBeforeRender ==
    h2d_pc \in {"error", "failed"} =>
        /\ h2d_doc = <<>>
        /\ h2d_bookmark_id_counter = 0

\* C4: process_document raises at most one error; when it has raised, the
\* ids the error lists are exactly the link targets that no element of the
\* source carries as id, all of them and no id that is present.
C4_AllMissingListed ==
    /\ Len(h2d_errors) <= 1
    /\ h2d_pc \in {"error", "failed"} =>
          /\ Len(h2d_errors) = 1
          /\ h2d_errors[1] = LinkTargets \ SourceIds
          /\ h2d_errors[1] # {}
    /\ h2d_pc \in {"done", "exited"} => h2d_errors = <<>>

\* C4 witness: the error lists two missing ids.
C4_Witness ==
    /\ h2d_pc = "error"
    /\ Len(h2d_errors) = 1
    /\ Cardinality(h2d_errors[1]) = 2

\* C5: when a link target is missing from the source ids the document is
\* never saved, the run does not end well, and main exits with code 1; the
\* document is saved only when nothing is missing.
C5_NoSaveWhenMissing ==
    /\ LinkTargets \ SourceIds # {} =>
          /\ ~h2d_saved
          /\ h2d_pc \notin {"done", "exited"}
    /\ h2d_pc = "failed" => h2d_exit_code = 1 /\ ~h2d_saved
    /\ h2d_saved => LinkTargets \ SourceIds = {}
    /\ h2d_pc = "exited" => h2d_exit_code = 0 /\ h2d_saved

\* C5 witness: the run has exited with code 1 and nothing saved, after it
\* had put paragraphs into the document.
C5_Witness ==
    /\ h2d_pc = "failed"
    /\ h2d_exit_code = 1
    /\ ~h2d_saved
    /\ h2d_doc # <<>>
    /\ LinkTargets \ SourceIds # {}

\* C11: normalising twice gives what normalising once gives, and the result
\* of normalize_html_whitespace neither starts nor ends with whitespace nor
\* holds two whitespace characters in a row; the empty string and
\* whitespace-only strings included.
C11_Normalized(text) ==
    /\ text # <<>> => text[1] \notin WhitespaceChars /\ text[Len(text)] \notin WhitespaceChars
    /\ \A k \in 1..(Len(text) - 1) :
          ~(text[k] \in WhitespaceChars /\ text[k + 1] \in WhitespaceChars)

C11_NormalizeIdempotent ==
    /\ ws_pc \in {"once", "twice"} => C11_Normalized(ws_once)
    /\ ws_pc = "twice" => ws_twice = ws_once

\* A text with leading, inner and trailing whitespace runs has been
\* normalised twice.
C11_Witness ==
    /\ ws_pc = "twice"
    /\ ws_text = <<"\n", "a", "\t", NBSP>>
    /\ ws_twice = <<"a">>

\* C13: roman_to_int raises, and returns no number, for the empty token and
\* for every token with a character outside {I,V,X,L,C,D,M}.
C13_RejectsOutsideSet ==
    rn_pc = "parsed" =>
        ((rn_roman = <<>> \/ \E k \in DOMAIN rn_roman : rn_roman[k] \notin RomanChars)
            => rn_back.raised)

\* C12: for the book of the run, the doc saved has at least as many sections
\* with FORCE_BLANK_VERSO_PAGES = True as with False, and as many exactly
\* when the book has at most one chapter.
C12_PlanLength(force) ==
    IF force = FORCE_BLANK_VERSO_PAGES THEN Len(j2d_doc)
    ELSE Len(process_document(j2d_data, force))

C12_ForcedPlanNotShorter ==
    j2d_pc = "done" =>
        /\ C12_PlanLength(TRUE) >= C12_PlanLength(FALSE)
        /\ C12_PlanLength(TRUE) = C12_PlanLength(FALSE) <=> Len(j2d_data.chapters) <= 1

\* A book of two chapters with a dedication has been saved without the flag,
\* and its plan is shorter than the forced one.
C12_Witness ==
    /\ j2d_pc = "done"
    /\ ~FORCE_BLANK_VERSO_PAGES
    /\ Len(j2d_data.chapters) = 2
    /\ ~DedicationIsEmpty(j2d_data.dedication)
    /\ C12_PlanLength(TRUE) > Len(j2d_doc)

\* C14: the chapter list holds the <h2> headings whose text has the full
\* shape "CHAPTER <roman-numeral> \u2014 <title>" and no other heading, and
\* no heading of another shape is handed to parse_chapter_heading (no
\* "Unable to parse chapter heading" error arises).
C14_FullShapePositions ==
    {pos \in DOMAIN h2j_source :
        h2j_source[pos].name = "h2" /\ chapter_match(h2j_source[pos].text)}

C14_OnlyFullShapeEnumerated ==
    /\ h2j_pc # "start" => Range(h2j_chapter_headings) = C14_FullShapePositions
    /\ h2j_error # "heading"

\* C15: strict mode is off until the first chapter heading has been
\* processed, is on whenever a sibling element is examined (for the first
\* chapter and for every later one), and once on it is never switched off.
C15_StrictState ==
    /\ (h2j_pc = "start" \/ (h2j_pc = "loop" /\ h2j_i = 0)) => ~h2j_strict_mode
    /\ h2j_pc = "walk" => h2j_strict_mode

C15_StrictStep == h2j_strict_mode => h2j_strict_mode'

C15_StrictModeStaysOn == []C15_StrictState /\ [][C15_StrictStep]_vars

\* A sibling of the second chapter is about to be examined, in strict mode.
C15_Witness ==
    /\ h2j_pc = "walk"
    /\ h2j_i = 1
    /\ h2j_current_element # 0
    /\ h2j_strict_mode

\* C16: in each converter the k-th add_bookmark call of the process gives
\* its start and end anchor the id k-1, whatever documents the calls are
\* made for: the counter starts at 0, equals the number of bookmarks made,
\* is never reset or decreased, and no two bookmarks share an id.
C16_IdsInCallOrder(made, counter) ==
    /\ counter = Len(made)
    /\ \A k \in DOMAIN made : made[k].start_id = k - 1 /\ made[k].end_id = k - 1
    /\ \A k, m \in DOMAIN made : made[k].start_id = made[m].start_id => k = m

C16_CounterState ==
    /\ C16_IdsInCallOrder(bookmarks_made(bm_docs, "json_to_docx"), j2d_bookmark_id_counter)
    /\ C16_IdsInCallOrder(bookmarks_made(bm_docs, "html_to_docx"), h2d_bookmark_id_counter)

C16_CounterStep ==
    /\ j2d_bookmark_id_counter' \in {j2d_bookmark_id_counter, j2d_bookmark_id_counter + 1}
    /\ h2d_bookmark_id_counter' \in {h2d_bookmark_id_counter, h2d_bookmark_id_counter + 1}

C16_BookmarkIdsCount == []C16_CounterState /\ [][C16_CounterStep]_vars

\* A second document of the same converter has taken a bookmark after the
\* first one took two.
C16_Witness ==
    /\ Len(bm_docs) = 2
    /\ bm_docs[1].module = "json_to_docx"
    /\ bm_docs[2].module = "json_to_docx"
    /\ Len(bookmarks_of_paragraphs(bm_docs[1].paragraphs)) = 2
    /\ Len(bookmarks_of_paragraphs(bm_docs[2].paragraphs)) = 1
    /\ j2d_bookmark_id_counter = 3

\* C17: the page references of the table of contents name exactly the
\* sanitized chapter_<number> of the chapters; each of these bookmarks is
\* emitted by process_chapters later than the reference, with the same
\* name; and in the saved document every reference has its bookmark.
C17_Paragraphs == UNION {Range(j2d_doc[k].body) : k \in DOMAIN j2d_doc}

C17_RefNames == UNION {Range(para.page_refs) : para \in C17_Paragraphs}

C17_BookmarkNames ==
    UNION {{para.bookmarks[b].name : b \in DOMAIN para.bookmarks} : para \in C17_Paragraphs}

C17_NamesOf(chapters) ==
    {j2d_safe_bookmark_id(chapter_bookmark_id(chapters[k].number)) : k \in DOMAIN chapters}

C17_RefsState ==
    /\ j2d_pc \in {"title", "dedication", "toc"} => C17_RefNames = {} /\ C17_BookmarkNames = {}
    /\ j2d_pc \in {"chapters", "done"} =>
          /\ C17_RefNames = C17_NamesOf(j2d_data.chapters)
          /\ C17_BookmarkNames = C17_NamesOf(SubSeq(j2d_data.chapters, 1, j2d_i))
    /\ j2d_saved => C17_RefNames \subseteq C17_BookmarkNames

C17_RefsStep ==
    /\ C17_BookmarkNames' \ C17_BookmarkNames \subseteq C17_RefNames
    /\ C17_RefNames' # C17_RefNames => C17_BookmarkNames' = {}

C17_TocRefsResolve == []C17_RefsState /\ [][C17_RefsStep]_vars

\* A book of two chapters with different numbers has been saved: two
\* references, two bookmarks.
C17_Witness ==
    /\ j2d_saved
    /\ Cardinality(C17_RefNames) = 2
    /\ C17_RefNames = C17_BookmarkNames

\* C18: when analyze_content fails the run aborts: no element is processed
\* afterwards, nothing is rendered and no document is saved.
C18_AnalysisFailureAborts ==
    h2d_analysis_failed =>
        /\ h2d_idx = 0
        /\ h2d_doc = <<>>
        /\ ~h2d_saved

\* C19: the sections of the saved doc are, in order: the title section (the
\* initial section, no start parity asked for); one ODD_PAGE dedication
\* section exactly when dedication data is present and not empty; one
\* ODD_PAGE table-of-contents section; then for each chapter in list order
\* an EVEN_PAGE blank section exactly when the flag is set or the chapter is
\* the first, followed at once by one ODD_PAGE section with the chapter body.
C19_Section(kind, of, start_type) == [kind |-> kind, of |-> of, start_type |-> start_type]

C19_Kind(section) ==
    IF section.body = <<>> THEN "blank"
    ELSE LET style == section.body[1].style
         IN  CASE style = "BookTitle" -> "title"
               [] style \in {"DedicationTo", "DedicationFrom", "DedicationCredits"} -> "dedication"
               [] style = "TOCHeading" -> "toc"
               [] style = "ChapterNumber" -> "chapter"
               [] OTHER -> "other"

C19_Owner(section) ==
    IF section.body = <<>> THEN 0 ELSE section.body[1].of

C19_Emitted ==
    [k \in DOMAIN j2d_doc |->
        C19_Section(C19_Kind(j2d_doc[k]), C19_Owner(j2d_doc[k]), j2d_doc[k].start_type)]

RECURSIVE C19_ChapterPlan(_, _)
C19_ChapterPlan(k, n) ==
    IF k > n THEN <<>>
    ELSE (IF FORCE_BLANK_VERSO_PAGES \/ k = 1
          THEN <<C19_Section("blank", 0, "EVEN_PAGE")>> ELSE <<>>)
         \o <<C19_Section("chapter", k, "ODD_PAGE")>>
         \o C19_ChapterPlan(k + 1, n)

C19_Plan ==
    LET d == j2d_data.dedication
    IN  <<C19_Section("title", 0, "NEW_PAGE")>>
        \o (IF d.present /\ ~DedicationIsEmpty(d)
             THEN <<C19_Section(IF d.to # "" THEN "dedication" ELSE "blank", 0, "ODD_PAGE")>>
             ELSE <<>>)
        \o <<C19_Section("toc", 0, "ODD_PAGE")>>
        \o C19_ChapterPlan(1, Len(j2d_data.chapters))

C19_SectionSequence == j2d_pc = "done" => C19_Emitted = C19_Plan

\* A book with dedication data and two chapters has been saved without the
\* flag: six sections, the second chapter without a blank one before it.
C19_Witness ==
    /\ j2d_pc = "done"
    /\ ~FORCE_BLANK_VERSO_PAGES
    /\ j2d_data.dedication.to # ""
    /\ Len(j2d_data.chapters) = 2
    /\ Len(j2d_doc) = 6

\* C20: the sections that restart the page numbering are the body section
\* of the first chapter and no other: the title, dedication, table of
\* contents, blank verso and later chapters' sections carry no restart
\* marker, and a saved book without chapters has none at all.
C20_Restarting == {k \in DOMAIN j2d_doc : j2d_doc[k].pgNumType}

C20_FirstChapterBody ==
    {k \in DOMAIN j2d_doc :
        j2d_doc[k].body # <<>> /\ j2d_doc[k].body[1].style = "ChapterNumber"
                               /\ j2d_doc[k].body[1].of = 1}

C20_NumberingRestartsOnce ==
    /\ C20_Restarting = C20_FirstChapterBody
    /\ j2d_pc = "done" =>
          Cardinality(C20_Restarting) = IF Len(j2d_data.chapters) >= 1 THEN 1 ELSE 0

\* Two chapters have been written under the flag, and the body section of
\* the first, third from the end, is the one that restarts the numbering.
C20_Witness ==
    /\ j2d_pc = "done"
    /\ FORCE_BLANK_VERSO_PAGES
    /\ Len(j2d_data.chapters) = 2
    /\ \E k \in DOMAIN j2d_doc :
          /\ C20_Restarting = {k}
          /\ k + 2 = Len(j2d_doc)

\* C21: the body section of the first chapter has an odd-page header with
\* content and an even-page header without any; the body section of every
\* later chapter has content in both.
C21_BodySections ==
    {k \in DOMAIN j2d_doc :
        j2d_doc[k].body # <<>> /\ j2d_doc[k].body[1].style = "ChapterNumber"}

C21_FirstChapterOmitsEvenHeader ==
    \A k \in C21_BodySections :
        /\ j2d_doc[k].header # <<>>
        /\ j2d_doc[k].even_page_header = <<>> <=> j2d_doc[k].body[1].of = 1

\* C22: the table of contents holds, after its heading, one entry per
\* chapter in the order of the chapter list; the i-th entry shows the Roman
\* numeral of the i-th chapter's number, its title in title case, and a
\* page reference to chapter_<number> of that chapter.
C22_TocSections ==
    {k \in DOMAIN j2d_doc :
        j2d_doc[k].body # <<>> /\ j2d_doc[k].body[1].style = "TOCHeading"}

C22_EntryOf(entry, chapter) ==
    /\ entry.style = "TOC Entry"
    /\ Len(entry.runs) >= 4
    /\ entry.runs[1] = roman_numeral(chapter.number) \o <<".">>
    /\ entry.runs[3] = to_title_case(chapter.title)
    /\ entry.page_refs = <<j2d_safe_bookmark_id(chapter_bookmark_id(chapter.number))>>

C22_TocEntriesInListOrder ==
    j2d_pc \in {"chapters", "done"} =>
        /\ Cardinality(C22_TocSections) = 1
        /\ \A k \in C22_TocSections :
              LET entries == Tail(j2d_doc[k].body)
              IN  /\ Len(entries) = Len(j2d_data.chapters)
                  /\ \A i \in DOMAIN entries : C22_EntryOf(entries[i], j2d_data.chapters[i])

\* The table of contents of a book whose chapters are numbered 4 and then 1
\* has been written.
C22_Witness ==
    /\ j2d_pc = "done"
    /\ Len(j2d_data.chapters) = 2
    /\ j2d_data.chapters[1].number = 4
    /\ j2d_data.chapters[2].number = 1
    /\ \A k \in C22_TocSections : Len(j2d_doc[k].body) = 3

\* C23: however many pages the sections of the saved doc fill, every
\* chapter starts on an odd page, and the pages between the last page of a
\* chapter and the first page of the next one number, without the flag, 0
\* when the chapter ends on an even page and 1 when it ends on an odd one,
\* and with the flag 2 when it ends on an even page and 1 otherwise.
C23_Bodies ==
    {k \in DOMAIN j2d_doc :
        j2d_doc[k].body # <<>> /\ j2d_doc[k].body[1].style = "ChapterNumber"}

C23_NextBody(a) == CHOOSE b \in C23_Bodies : b > a /\ \A c \in C23_Bodies : c > a => b <= c

C23_Gap(layout, a) == layout[C23_NextBody(a)].first - layout[a].last - 1

C23_PagesBetweenChapters ==
    j2d_pc = "done" =>
        \A pages \in render_page_counts(j2d_doc) :
            LET layout == render_layout(j2d_doc, pages, 1, 0)
            IN  /\ \A b \in C23_Bodies : layout[b].first % 2 = 1
                /\ \A a \in C23_Bodies :
                      (\E b \in C23_Bodies : b > a) =>
                          C23_Gap(layout, a) =
                              IF FORCE_BLANK_VERSO_PAGES
                              THEN (IF layout[a].last % 2 = 0 THEN 2 ELSE 1)
                              ELSE (IF layout[a].last % 2 = 0 THEN 0 ELSE 1)

\* Under the flag a first chapter can end on an even page, and two pages
\* then lie between it and the second chapter.
C23_Witness ==
    /\ j2d_pc = "done"
    /\ FORCE_BLANK_VERSO_PAGES
    /\ Cardinality(C23_Bodies) = 2
    /\ \E pages \in render_page_counts(j2d_doc) :
          LET layout == render_layout(j2d_doc, pages, 1, 0)
              a == CHOOSE k \in C23_Bodies : \E b \in C23_Bodies : b > k
          IN  layout[a].last % 2 = 0 /\ C23_Gap(layout, a) = 2

\* C24: a section whose headers are shown (a chapter's body section, and the
\* blank section before a chapter other than the first) has a first-page
\* header with the page field only, an odd-page header "title, tab, page
\* field" aligned right and an even-page header "page field, tab, title"
\* aligned left, the title being the chapter's in title case; a section
\* whose headers are hidden (title, dedication, table of contents, the blank
\* section before the first chapter) has three empty headers.
C24_IsBody(k) == j2d_doc[k].body # <<>> /\ j2d_doc[k].body[1].style = "ChapterNumber"

C24_ChapterOf(k) ==
    IF C24_IsBody(k) THEN j2d_doc[k].body[1].of
    ELSE IF j2d_doc[k].start_type = "EVEN_PAGE" /\ k < Len(j2d_doc) /\ C24_IsBody(k + 1)
         THEN j2d_doc[k + 1].body[1].of
    ELSE 0

C24_Shown(k) ==
    \/ C24_IsBody(k)
    \/ j2d_doc[k].start_type = "EVEN_PAGE" /\ C24_ChapterOf(k) > 1

C26_DistinctChapterNumbers ==
    h2j_written =>
        \A i, j \in DOMAIN h2j_chapters :
            h2j_chapters[i].number = h2j_chapters[j].number => i = j

\* C27: an item written to the document (TOC entry, heading or paragraph)
\* takes the bookmarks of every id then pending, in the order they were met,
\* and leaves the pending list empty; no id is pending when the document is
\* saved.
C27_WrittenItemTakesPending ==
    Len(h2d_doc') > Len(h2d_doc) =>
        LET item == h2d_doc'[Len(h2d_doc')]
            names == [b \in DOMAIN item.bookmarks |-> item.bookmarks[b].name]
            n == Len(h2d_pending_bookmarks)
        IN  /\ h2d_pending_bookmarks' = <<>>
            /\ Len(names) >= n
            /\ SubSeq(names, Len(names) - n + 1, Len(names)) =
                  [k \in 1..n |-> h2d_safe_bookmark_id(h2d_pending_bookmarks[k])]

C27_SaveWithNothingPending == h2d_saved' => h2d_pending_bookmarks' = <<>>

C27_PendingLinkedToNextItem ==
    [][C27_WrittenItemTakesPending /\ C27_SaveWithNothingPending]_vars

\* C28: to_title_case keeps the number and the order of the words; the
\* first and the last word are the capitalized lower-case form of the
\* original, and so is every word between them that is not in the closed
\* set, while a member of the set between them stays in lower case; and
\* applying to_title_case to its own result changes nothing.
C28_WordOf(text, k) ==
    IF k = 1 \/ k = Len(text) \/ lower(text[k]) \notin lowercase_words
    THEN capitalize(lower(text[k]))
    ELSE lower(text[k])

C28_TitleCaseIdempotent ==
    /\ tc_pc \in {"once", "twice"} =>
          /\ Len(tc_once) = Len(tc_text)
          /\ \A k \in DOMAIN tc_text : tc_once[k] = C28_WordOf(tc_text, k)
    /\ tc_pc = "twice" => tc_twice = tc_once


\* C29: in convert_html_to_json a failure on any chapter (heading that does
\* not parse, invalid Roman numeral, strict-mode violation), a late one
\* included, leaves the output file unwritten: the file is written only
\* once every chapter heading found has produced a chapter without error,
\* and a failed run ends with exit code 1 (exit code 0 only after the write).
C29_NoOutputOnFailure ==
    /\ h2j_error # "" => /\ ~h2j_written
                         /\ h2j_pc \in {"error", "failed"}
    /\ h2j_written => /\ h2j_error = ""
                      /\ h2j_i = Len(h2j_chapter_headings)
                      /\ Len(h2j_chapters) = Len(h2j_chapter_headings)
    /\ h2j_pc = "failed" => h2j_exit_code = 1 /\ h2j_error # ""
    /\ h2j_pc = "exited" => h2j_exit_code = 0 /\ h2j_written
    /\ h2j_exit_code \in {-1, 0, 1}

\* A late failure: a chapter was extracted, a later one failed, the run
\* ended with exit code 1 and nothing was written.
C29_Witness ==
    /\ h2j_pc = "failed"
    /\ Len(h2j_chapters) >= 1
    /\ h2j_exit_code = 1
    /\ ~h2j_written


\* The source ids for which add_bookmark was called: the own id of an element
\* that became a bookmarked paragraph, or the id of an earlier element that
\* was pending when such a paragraph was written.
C30_BookmarkedIds ==
    {s \in SourceIds :
        \E k \in DOMAIN h2d_doc :
            /\ h2d_doc[k].bookmarks # <<>>
            /\ \/ h2d_soup[h2d_doc[k].src].id = s
               \/ \E q \in Range(h2d_elements) :
                      /\ q < h2d_doc[k].src
                      /\ goes_pending(h2d_soup[q])
                      /\ h2d_soup[q].id = s}

\* C30: sanitization keeps distinct targets distinct: in a saved document
\* two different source identifiers never get bookmarks of the same name,
\* and the name a page reference of the document asks for is never the name
\* of a bookmark created for an identifier other than the link's target.
C30_SanitizedNamesDistinct ==
    h2d_saved =>
        /\ \A s1, s2 \in C30_BookmarkedIds :
               s1 # s2 => h2d_safe_bookmark_id(s1) # h2d_safe_bookmark_id(s2)
        /\ \A k \in DOMAIN h2d_doc : \A s \in C30_BookmarkedIds :
               s # h2d_soup[h2d_doc[k].src].href =>
                   h2d_safe_bookmark_id(s) \notin Range(h2d_doc[k].page_refs)

====
